---- MODULE Spec2Model ----
(***************************************************************************)
(* Model of the installation layer of stackmatch-cli.                      *)
(*                                                                         *)
(* The installation tracker (pkg/installer/tracker.go): the in-memory      *)
(* id -> record map, the journal file, the tracker's mutex and the         *)
(* goroutines that call the tracker; specification Spec.                   *)
(*                                                                         *)
(* The orchestrator (pkg/installer/installer.go), the package manager      *)
(* drivers (pkg/installer/package_managers) and package version; the       *)
(* specification SpecInstaller.                                            *)
(*                                                                         *)
(* Go values are modelled as follows.  A Go map is a reference: the record *)
(* fields Packages and Metadata hold an address into heap (0 is the nil    *)
(* map), so that a struct copy shares the maps of the record it was copied *)
(* from.  time.Time is its wall-clock instant.  An id "inst_<n>" is the    *)
(* pair <<"inst_", n>>.  A JSON object is a function whose domain is the   *)
(* set of keys present in the text.                                        *)
(***************************************************************************)
EXTENDS Integers, Sequences, FiniteSets, TLC

VARIABLES
    installations,  \* t.installations: id -> live record
    heap,           \* the Go maps allocated in this process, by address
    journal,        \* the file at t.trackerFile
    mu,             \* t.mu: NoOne when unlocked, else the goroutine holding it
    now,            \* the wall clock read by time.Now()
    pc,             \* where each goroutine is
    call,           \* the tracker call each goroutine is in (or has finished)
    result,         \* what the finished call returned
    held,           \* the record the callers were last given by the tracker
    frame,          \* Rollback's local variables
    driver,         \* the UninstallPackage calls the driver has received
    packageMappings,\* the orchestrator's table of package names
    pm,             \* the type of the driver the orchestrator works with
    repo,           \* the package names the manager's repository holds
    host,           \* the installed packages of the host, with their versions
    cmds,           \* the subprocesses the current operation has run
    calls,          \* the driver methods that have returned in the current operation
    orch,           \* the operation of the orchestrator or driver in progress
    lib             \* the call of a function of the packages, with its arguments and result

tvars == <<installations, heap, journal, mu, now, pc, call, result, held, frame, driver>>
ivars == <<packageMappings, pm, repo, host, cmds, calls, orch, lib>>
vars == <<installations, heap, journal, mu, now, pc, call, result, held, frame, driver,
          packageMappings, pm, repo, host, cmds, calls, orch, lib>>

----------------------------------------------------------------------------
(* Bounds *)

MaxTime == 2        \* clock instants 1..MaxTime
MaxLoaded == 1      \* records in the journal a tracker is constructed on
MaxHeap == 6        \* Go maps allocated in one process
MaxDriverCalls == 3 \* UninstallPackage calls received in one process
MaxBatch == 2       \* packages in one list given to a batch operation
MaxCommands == 3    \* subprocesses of one step that may fail for reasons of their own
MaxAdded == 2       \* mappings a process adds to the table of package names

Procs == {"g1", "g2"}
NoOne == "none"

----------------------------------------------------------------------------
(* Values *)

StatusInProgress == "in_progress"
StatusCompleted == "completed"
StatusFailed == "failed"
StatusRolledBack == "rolled_back"
StatusRollingBack == "rolling_back"
StatusRollbackFailed == "rollback_failed"

NilEnv == "nil"
Envs == {NilEnv, "envA"}

\* types.PackageInfo values a caller passes to AddPackage
PackageInputs == {[Name |-> "a", Version |-> ""], [Name |-> "b", Version |-> "1.0"]}
Reasons == {"r1"}

EmptyMap == [k \in {} |-> k]

MapSet(m, k, v) == [x \in (DOMAIN m) \cup {k} |-> IF x = k THEN v ELSE m[x]]
MapDel(m, k) == [x \in (DOMAIN m) \ {k} |-> m[x]]

generateID(t) == <<"inst_", t>>

Ids == {generateID(t) : t \in 1..MaxTime}

\* installer.PackageInfo built by AddPackage from a types.PackageInfo
ConvertPackageInfo(pkg) == [Name |-> pkg.Name, Version |-> pkg.Version, ManagerType |-> ""]

----------------------------------------------------------------------------
(* encoding/json on map[string]*InstallationRecord *)

EncodePackageInfo(pi) ==
    IF pi.Version # ""
    THEN [name |-> pi.Name, version |-> pi.Version, manager_type |-> pi.ManagerType]
    ELSE [name |-> pi.Name, manager_type |-> pi.ManagerType]

DecodePackageInfo(j) ==
    [Name |-> j.name,
     Version |-> IF "version" \in DOMAIN j THEN j.version ELSE "",
     ManagerType |-> j.manager_type]

\* `json:"packages"`: a nil map is null, any other map an object.
EncodePackages(r, h) ==
    IF r.Packages = 0
    THEN [null |-> TRUE, obj |-> EmptyMap]
    ELSE [null |-> FALSE,
          obj |-> [n \in DOMAIN h[r.Packages] |-> EncodePackageInfo(h[r.Packages][n])]]

\* `json:"environment,omitempty"` drops a nil pointer and
\* `json:"metadata,omitempty"` drops a map of length 0, nil or not.
EncodeRecord(r, h) ==
    LET base == [id |-> r.ID, timestamp |-> r.Timestamp,
                 packages |-> EncodePackages(r, h), status |-> r.Status]
        env == IF r.Environment # NilEnv
               THEN [environment |-> r.Environment] ELSE EmptyMap
        md == IF r.Metadata # 0 /\ DOMAIN h[r.Metadata] # {}
              THEN [metadata |-> h[r.Metadata]] ELSE EmptyMap
    IN base @@ env @@ md

Encode(inst, h) == [id \in DOMAIN inst |-> EncodeRecord(inst[id], h)]

\* The position of id among the keys of a journal (the order of allocation).
Rank(id, ids) == Cardinality({x \in ids : x[2] <= id[2]})

\* decoder.Decode(&t.installations): a fresh record per key, a fresh map per
\* object; null and an absent key leave the field nil.
DecodeRecord(j, k) ==
    [ID |-> j.id,
     Timestamp |-> j.timestamp,
     Packages |-> IF j.packages.null THEN 0 ELSE 2 * k - 1,
     Environment |-> IF "environment" \in DOMAIN j THEN j.environment ELSE NilEnv,
     Metadata |-> IF "metadata" \in DOMAIN j THEN 2 * k ELSE 0,
     Status |-> j.status]

DecodeHeap(content) ==
    LET ids == DOMAIN content
        at(k) == CHOOSE id \in ids : Rank(id, ids) = k
    IN [a \in 1..(2 * Cardinality(ids)) |->
          LET j == content[at((a + 1) \div 2)] IN
          IF a % 2 = 1
          THEN [n \in DOMAIN j.packages.obj |-> DecodePackageInfo(j.packages.obj[n])]
          ELSE IF "metadata" \in DOMAIN j THEN j.metadata ELSE EmptyMap]

load(content) ==
    [installations |-> [id \in DOMAIN content |->
                           DecodeRecord(content[id], Rank(id, DOMAIN content))],
     heap |-> DecodeHeap(content)]

----------------------------------------------------------------------------
(* The journal files a tracker may be constructed on: no file, or a file   *)
(* written by save from records the tracker's operations produce.          *)

NoFile == [exists |-> FALSE, valid |-> TRUE, content |-> EmptyMap]
Truncated == [exists |-> TRUE, valid |-> FALSE, content |-> EmptyMap]
File(content) == [exists |-> TRUE, valid |-> TRUE, content |-> content]

PkgA == [name |-> "a", manager_type |-> ""]
PkgB == [name |-> "b", version |-> "1.0", manager_type |-> ""]

JournalRecords(id) ==
    { [id |-> id, timestamp |-> id[2], status |-> StatusInProgress,
       packages |-> [null |-> FALSE, obj |-> EmptyMap]],
      [id |-> id, timestamp |-> id[2], status |-> StatusCompleted,
       packages |-> [null |-> FALSE, obj |-> [n \in {"a"} |-> PkgA]],
       environment |-> "envA"],
      [id |-> id, timestamp |-> id[2], status |-> StatusFailed,
       packages |-> [null |-> FALSE,
                     obj |-> [n \in {"a", "b"} |-> IF n = "a" THEN PkgA ELSE PkgB]],
       metadata |-> [k \in {"failure_reason"} |-> "r1"]] }

\* The records of the journal were made at the first MaxLoaded instants.
LoadedIds == {generateID(t) : t \in 1..MaxLoaded}

JournalContents ==
    UNION { {c \in [S -> UNION {JournalRecords(id) : id \in S}] :
                \A id \in S : c[id] \in JournalRecords(id)} :
            S \in SUBSET LoadedIds }

InitialJournals == {NoFile} \cup {File(c) : c \in JournalContents}

----------------------------------------------------------------------------
(* Package version (semantic versions).  A Go string is the sequence of    *)
(* its characters, each a one-character string.                            *)

Digits == <<"0", "1", "2", "3", "4", "5", "6", "7", "8", "9">>
UpperCase == <<"A", "B", "C", "D", "E", "F", "G", "H", "I", "J", "K", "L", "M",
               "N", "O", "P", "Q", "R", "S", "T", "U", "V", "W", "X", "Y", "Z">>
LowerCase == <<"a", "b", "c", "d", "e", "f", "g", "h", "i", "j", "k", "l", "m",
               "n", "o", "p", "q", "r", "s", "t", "u", "v", "w", "x", "y", "z">>

\* The characters of the model in the order of their byte values.
Ascii == <<" ", "!", "*", "+", "-", ".">> \o Digits \o <<"<", "=", ">", "@">> \o UpperCase
             \o <<"^">> \o LowerCase

Range(s) == {s[i] : i \in 1..Len(s)}
Ord(c) == CHOOSE i \in 1..Len(Ascii) : Ascii[i] = c

\* the classes [0-9] and [0-9A-Za-z\-\.]
DigitChars == Range(Digits)
TagChars == Range(Digits) \cup Range(UpperCase) \cup Range(LowerCase) \cup {"-", "."}
IsDigit(c) == c \in DigitChars

Drop(s, n) == SubSeq(s, n + 1, Len(s))
HasPrefix(s, p) == Len(p) <= Len(s) /\ SubSeq(s, 1, Len(p)) = p
HasSuffix(s, p) == Len(p) <= Len(s) /\ SubSeq(s, Len(s) - Len(p) + 1, Len(s)) = p
TrimSuffix(s, p) == IF HasSuffix(s, p) THEN SubSeq(s, 1, Len(s) - Len(p)) ELSE s
\* strings.Index: the first position at which p occurs in s, 0 when it does not
Index(s, p) ==
    LET at == {i \in 1..(Len(s) - Len(p) + 1) : SubSeq(s, i, i + Len(p) - 1) = p}
    IN IF at = {} THEN 0 ELSE CHOOSE i \in at : \A j \in at : i <= j
Contains(s, p) == Index(s, p) # 0
ContainsAny(s, chars) == \E i \in 1..Len(s) : s[i] \in chars

RECURSIVE TrimLeft(_)
TrimLeft(s) == IF s # <<>> /\ s[1] = " " THEN TrimLeft(Tail(s)) ELSE s
RECURSIVE TrimRight(_)
TrimRight(s) ==
    IF s # <<>> /\ s[Len(s)] = " " THEN TrimRight(SubSeq(s, 1, Len(s) - 1)) ELSE s
TrimSpace(s) == TrimRight(TrimLeft(s))

\* The length of the longest prefix of s whose characters are in the class.
RunLength(s, class) ==
    CHOOSE n \in 0..Len(s) :
        /\ \A i \in 1..n : s[i] \in class
        /\ n = Len(s) \/ s[n + 1] \notin class

\* strconv.Atoi on a run of digits
RECURSIVE Atoi(_)
Atoi(s) == IF s = <<>> THEN 0 ELSE 10 * Atoi(SubSeq(s, 1, Len(s) - 1)) + (Ord(s[Len(s)]) - Ord("0"))

\* %d
RECURSIVE Itoa(_)
Itoa(n) == IF n < 10 THEN <<Digits[n + 1]>> ELSE Itoa(n \div 10) \o <<Digits[(n % 10) + 1]>>

\* Go's < on strings: byte-wise lexical order
RECURSIVE StringLess(_, _)
StringLess(a, b) ==
    IF b = <<>> THEN FALSE
    ELSE IF a = <<>> THEN TRUE
    ELSE IF a[1] # b[1] THEN Ord(a[1]) < Ord(b[1])
    ELSE StringLess(Tail(a), Tail(b))

NoVersion == [ok |-> FALSE, Major |-> 0, Minor |-> 0, Patch |-> 0,
              PreRelease |-> <<>>, Build |-> <<>>]

\* One optional group of versionRegex: the separator followed by a non-empty
\* run of the class; the group is skipped when that does not match here.
Group(s, sep, class) ==
    LET Taken(n) ==
            IF s # <<>> /\ s[1] = sep /\ n > 0
            THEN [text |-> SubSeq(s, 2, 1 + n), rest |-> Drop(s, 1 + n)]
            ELSE [text |-> <<>>, rest |-> s]
    IN Taken(IF s = <<>> THEN 0 ELSE RunLength(Tail(s), class))

\* Parse: ^v?(\d+)(?:\.(\d+))?(?:\.(\d+))?(?:-([0-9A-Za-z\-\.]+))?(?:\+([0-9A-Za-z\-\.]+))?$
Parse(v) ==
    LET s == IF v # <<>> /\ v[1] = "v" THEN Tail(v) ELSE v
        Matched(n, minor, patch, pre, build) ==
            IF n = 0 \/ build.rest # <<>> THEN NoVersion
            ELSE [ok |-> TRUE, Major |-> Atoi(SubSeq(s, 1, n)), Minor |-> Atoi(minor.text),
                  Patch |-> Atoi(patch.text), PreRelease |-> pre.text, Build |-> build.text]
        AfterPre(n, minor, patch, pre) ==
            Matched(n, minor, patch, pre, Group(pre.rest, "+", TagChars))
        AfterPatch(n, minor, patch) == AfterPre(n, minor, patch, Group(patch.rest, "-", TagChars))
        AfterMinor(n, minor) == AfterPatch(n, minor, Group(minor.rest, ".", DigitChars))
        AfterMajor(n) == AfterMinor(n, Group(Drop(s, n), ".", DigitChars))
    IN AfterMajor(RunLength(s, DigitChars))

compareInts(a, b) == IF a < b THEN -1 ELSE IF a > b THEN 1 ELSE 0

\* Compare as it would be if a version with a pre-release tag were lower than
\* any version with the same numbers.
Compare_TagAlwaysLower(v, other) ==
    IF v.Major # other.Major THEN compareInts(v.Major, other.Major)
    ELSE IF v.Minor # other.Minor THEN compareInts(v.Minor, other.Minor)
    ELSE IF v.Patch # other.Patch THEN compareInts(v.Patch, other.Patch)
    ELSE IF v.PreRelease # <<>> THEN -1
    ELSE IF other.PreRelease # <<>> THEN 1
    ELSE 0

Compare(v, other) ==
    IF v.Major # other.Major THEN compareInts(v.Major, other.Major)
    ELSE IF v.Minor # other.Minor THEN compareInts(v.Minor, other.Minor)
    ELSE IF v.Patch # other.Patch THEN compareInts(v.Patch, other.Patch)
    ELSE IF v.PreRelease # <<>> /\ other.PreRelease = <<>> THEN -1
    ELSE IF v.PreRelease = <<>> /\ other.PreRelease # <<>> THEN 1
    ELSE IF v.PreRelease # other.PreRelease
         THEN (IF StringLess(v.PreRelease, other.PreRelease) THEN -1 ELSE 1)
    ELSE 0

\* Version.String
String(v) ==
    Itoa(v.Major) \o <<".">> \o Itoa(v.Minor) \o <<".">> \o Itoa(v.Patch)
      \o (IF v.PreRelease # <<>> THEN <<"-">> \o v.PreRelease ELSE <<>>)
      \o (IF v.Build # <<>> THEN <<"+">> \o v.Build ELSE <<>>)

\* The regular expression checkWildcardConstraint compiles, as its tokens:
\* strings.NewReplacer turns x and X into [0-9]+ and * into .*, every other
\* character stands as written ("." any character, "^" start of text, "+" one
\* or more of what precedes it), between "^" and "$".
RECURSIVE Tokens(_)
Tokens(c) ==
    IF c = <<>> THEN <<>>
    ELSE LET rest == Tokens(SubSeq(c, 1, Len(c) - 1))
             ch == c[Len(c)]
         IN IF rest # <<>> /\ rest[Len(rest)].kind = "bad" THEN rest
            ELSE IF ch \in {"x", "X"} THEN Append(rest, [kind |-> "digit", ch |-> ch, rep |-> "plus"])
            ELSE IF ch = "*" THEN Append(rest, [kind |-> "any", ch |-> ch, rep |-> "star"])
            ELSE IF ch = "." THEN Append(rest, [kind |-> "any", ch |-> ch, rep |-> "one"])
            ELSE IF ch = "^" THEN Append(rest, [kind |-> "bol", ch |-> ch, rep |-> "one"])
            ELSE IF ch = "+"
                 THEN (IF rest = <<>> THEN <<[kind |-> "bol", ch |-> "^", rep |-> "plus"]>>
                       ELSE IF rest[Len(rest)].rep = "one"
                       THEN [rest EXCEPT ![Len(rest)].rep = "plus"]
                       ELSE Append(rest, [kind |-> "bad", ch |-> ch, rep |-> "one"]))
            ELSE Append(rest, [kind |-> "lit", ch |-> ch, rep |-> "one"])

Compiles(c) ==
    LET Good(toks) == toks = <<>> \/ toks[Len(toks)].kind # "bad" IN Good(Tokens(c))

Accepts(t, ch) ==
    IF t.kind = "any" THEN TRUE
    ELSE IF t.kind = "digit" THEN IsDigit(ch)
    ELSE t.kind = "lit" /\ t.ch = ch

\* re.MatchString for ^tokens$ on the text s; atStart: nothing was consumed yet.
RECURSIVE MatchTokens(_, _, _)
MatchTokens(toks, s, atStart) ==
    IF toks = <<>> THEN s = <<>>
    ELSE LET t == Head(toks) IN
         IF t.kind = "bol" THEN atStart /\ MatchTokens(Tail(toks), s, atStart)
         ELSE IF t.rep = "one"
              THEN s # <<>> /\ Accepts(t, s[1]) /\ MatchTokens(Tail(toks), Tail(s), FALSE)
         ELSE \E n \in (IF t.rep = "plus" THEN 1 ELSE 0)..Len(s) :
                 /\ \A i \in 1..n : Accepts(t, s[i])
                 /\ MatchTokens(Tail(toks), Drop(s, n), atStart /\ n = 0)

Answer(b) == [ok |-> b, err |-> FALSE]
Invalid == [ok |-> FALSE, err |-> TRUE]

checkWildcardConstraint(v, constraint) ==
    IF constraint \in {<<"*">>, <<"x">>, <<"X">>} THEN Answer(TRUE)
    ELSE IF HasSuffix(constraint, <<".", "x">>) \/ HasSuffix(constraint, <<".", "X">>)
    THEN Answer(HasPrefix(String(v),
                   TrimSuffix(TrimSuffix(constraint, <<".", "x">>), <<".", "X">>) \o <<".">>))
    ELSE IF Contains(constraint, <<"-", "*">>)
    THEN Answer(HasPrefix(String(v), TrimSuffix(constraint, <<"-", "*">>)))
    ELSE IF ~Compiles(constraint) THEN Invalid
    ELSE Answer(MatchTokens(Tokens(constraint),
                   Itoa(v.Major) \o <<".">> \o Itoa(v.Minor) \o <<".">> \o Itoa(v.Patch)
                     \o (IF v.PreRelease # <<>> THEN <<"-">> \o v.PreRelease ELSE <<>>),
                   TRUE))

\* The operators in the order Satisfies tries them.
Operators == << <<">", "=">>, <<"<", "=">>, <<">">>, <<"<">>, <<"=">>, <<"!", "=">> >>

OperatorHolds(op, cmp) ==
    IF op = <<">", "=">> THEN cmp >= 0
    ELSE IF op = <<"<", "=">> THEN cmp <= 0
    ELSE IF op = <<">">> THEN cmp > 0
    ELSE IF op = <<"<">> THEN cmp < 0
    ELSE IF op = <<"=">> THEN cmp = 0
    ELSE cmp # 0

\* Version.Satisfies: [ok |-> the answer, err |-> an error was returned]
Satisfies(v, constraint) ==
    LET found == {i \in 1..Len(Operators) : HasPrefix(constraint, Operators[i])}
        op == Operators[CHOOSE i \in found : \A j \in found : i <= j]
        sep == <<" ", "-", " ">>
        Compared(other) ==
            IF ~other.ok THEN Invalid ELSE Answer(OperatorHolds(op, Compare(v, other)))
        Between(lower, upper) ==
            IF ~lower.ok \/ ~upper.ok THEN Invalid
            ELSE Answer(Compare(v, lower) >= 0 /\ Compare(v, upper) <= 0)
        Ranged(at) ==
            Between(Parse(TrimSpace(SubSeq(constraint, 1, at - 1))),
                    Parse(TrimSpace(Drop(constraint, at + 2))))
        Equal(target) == IF ~target.ok THEN Invalid ELSE Answer(Compare(v, target) = 0)
    IN IF constraint = <<>> \/ constraint = <<"*">> THEN Answer(TRUE)
       ELSE IF found # {} THEN Compared(Parse(TrimSpace(Drop(constraint, Len(op)))))
       ELSE IF Contains(constraint, sep) THEN Ranged(Index(constraint, sep))
       ELSE IF ContainsAny(constraint, {"x", "X", "*", "^"})
       THEN checkWildcardConstraint(v, constraint)
       ELSE Equal(Parse(constraint))

----------------------------------------------------------------------------
(* The package managers (pkg/types, pkg/installer/package_managers) and    *)
(* the name mapping of the orchestrator (pkg/installer).  A package name   *)
(* is a string; a version and a version constraint are texts (sequences of *)
(* characters), which the drivers hand to package version.                 *)

TypeApt == "apt"
TypeDnf == "dnf"
TypeYum == "yum"
TypePacman == "pacman"
TypeSnap == "snap"
TypeHomebrew == "homebrew"
TypeChocolatey == "chocolatey"
TypeScoop == "scoop"
TypeWinget == "winget"

ManagerTypes == {TypeApt, TypeDnf, TypeYum, TypePacman, TypeSnap, TypeHomebrew,
                 TypeChocolatey, TypeScoop, TypeWinget}

\* The entries packageMappings is initialised with; Snap has none.
packageMappingsSeed ==
    LET Others == ManagerTypes \ {TypeSnap} IN
    << [Name |-> "nodejs",
        Packages |-> [t \in Others |->
                        IF t = TypeHomebrew THEN "node"
                        ELSE IF t = TypeWinget THEN "OpenJS.NodeJS" ELSE "nodejs"]],
       [Name |-> "python3",
        Packages |-> [t \in Others |->
                        IF t \in {TypeApt, TypeDnf, TypeYum} THEN "python3"
                        ELSE IF t = TypeWinget THEN "Python.Python.3" ELSE "python"]],
       [Name |-> "git",
        Packages |-> [t \in Others |-> IF t = TypeWinget THEN "Git.Git" ELSE "git"]],
       [Name |-> "postgresql",
        Packages |-> [t \in Others |->
                        IF t \in {TypeDnf, TypeYum} THEN "postgresql-server"
                        ELSE IF t = TypeHomebrew THEN "postgresql@14"
                        ELSE IF t = TypeWinget THEN "PostgreSQL.pgAdmin" ELSE "postgresql"]],
       [Name |-> "docker",
        Packages |-> [t \in Others |->
                        IF t = TypeApt THEN "docker.io"
                        ELSE IF t = TypeChocolatey THEN "docker-desktop"
                        ELSE IF t = TypeWinget THEN "Docker.DockerDesktop" ELSE "docker"]] >>

\* strings.ToLower on the names of the model: the names written with capital
\* letters, every other name of the model is in lower case already.
ToLower(s) ==
    IF s = "NodeJS" THEN "nodejs"
    ELSE IF s = "Git" THEN "git"
    ELSE s

EqualFold(a, b) == ToLower(a) = ToLower(b)

\* GetPackageName as it would be if a missing entry for the manager gave the
\* original name back.
GetPackageName_FallsBackToOriginal(mappings, pkg, pmType) ==
    LET hits == {i \in 1..Len(mappings) : EqualFold(mappings[i].Name, pkg)}
        first == CHOOSE i \in hits : \A j \in hits : i <= j
    IN IF hits = {} THEN [name |-> pkg, err |-> FALSE]
       ELSE IF pmType \in DOMAIN mappings[first].Packages
       THEN [name |-> mappings[first].Packages[pmType], err |-> FALSE]
       ELSE [name |-> pkg, err |-> FALSE]

\* GetPackageName as it would be if the last matching entry decided.
GetPackageName_LastEntryDecides(mappings, pkg, pmType) ==
    LET hits == {i \in 1..Len(mappings) : EqualFold(mappings[i].Name, pkg)}
        last == CHOOSE i \in hits : \A j \in hits : i >= j
    IN IF hits = {} THEN [name |-> pkg, err |-> FALSE]
       ELSE IF pmType \in DOMAIN mappings[last].Packages
       THEN [name |-> mappings[last].Packages[pmType], err |-> FALSE]
       ELSE [name |-> "", err |-> TRUE]

\* GetPackageName: the first entry whose name matches decides.
GetPackageName(mappings, pkg, pmType) ==
    LET hits == {i \in 1..Len(mappings) : EqualFold(mappings[i].Name, pkg)}
        first == CHOOSE i \in hits : \A j \in hits : i <= j
    IN IF hits = {} THEN [name |-> pkg, err |-> FALSE]
       ELSE IF pmType \in DOMAIN mappings[first].Packages
       THEN [name |-> mappings[first].Packages[pmType], err |-> FALSE]
       ELSE [name |-> "", err |-> TRUE]

----------------------------------------------------------------------------
(* Errors.  A type assertion to PackageNotFoundError holds of the typed    *)
(* error only, not of an error that fmt.Errorf wrapped.                    *)

Nil == [type |-> "nil", msg |-> "", pkg |-> ""]
PackageAlreadyInstalledError(pkg) == [type |-> "AlreadyInstalled", msg |-> "", pkg |-> pkg]
PackageNotFoundError(pkg) == [type |-> "NotFound", msg |-> "", pkg |-> pkg]
Errorf(msg, pkg) == [type |-> "error", msg |-> msg, pkg |-> pkg]
\* a call of a nil function value: the goroutine panics
NilFuncPanic == [type |-> "panic", msg |-> "nil pointer dereference", pkg |-> ""]

----------------------------------------------------------------------------
(* The host.  w.host maps each installed package to its installed version, *)
(* w.cmds are the subprocesses run so far, w.calls the driver methods that *)
(* have returned, w.n the number of subprocesses run in the current step.  *)
(* A subprocess does what the package manager does on this host, unless it *)
(* fails for a reason of its own (o, chosen per step, says which do).      *)

Run(w, c) == [w EXCEPT !.cmds = Append(@, c), !.n = @ + 1]
Fails(w, o) == (w.n + 1) \in DOMAIN o /\ o[w.n + 1] = "fail"
\* A driver method has returned; sat is the Satisfies field of the answer of
\* CheckVersion.
ReturnedInfo(w, api, pkg, arg, err, sat) ==
    [w EXCEPT !.calls = Append(@, [api |-> api, pkg |-> pkg, arg |-> arg, err |-> err,
                                    sat |-> sat])]
Returned(w, api, pkg, arg, err) == ReturnedInfo(w, api, pkg, arg, err, FALSE)
Command(cmd, pkg, ver, ok) == [cmd |-> cmd, pkg |-> pkg, ver |-> ver, ok |-> ok]

\* The versions the manager's repository offers, in the order it lists them.
AvailableVersions == << <<"2", ".", "0", ".", "0">>, <<"1", ".", "0", ".", "0">> >>

\* Drivers whose probe turns a failed subprocess into "not installed";
\* the probes of the others return the error.
ProbeErrorIsAbsent == {TypeApt, TypeDnf, TypeYum, TypePacman, TypeSnap, TypeWinget}

\* Drivers constructed with installPackageFunc / uninstallPackageFunc set,
\* and drivers with an InstallVersion of their own.
HasInstallPackageFunc == {TypeApt, TypeHomebrew, TypeChocolatey}
OverridesInstallVersion == {TypeApt, TypeHomebrew, TypeChocolatey}
HasUninstallPackageFunc == {TypeHomebrew, TypeChocolatey}

\* checkIfInstalled as it would be if the answer of the manager were lost.
checkIfInstalled_AnswerLost(pmType, w, o, pkg) ==
    [w |-> Run(w, Command("probe", pkg, <<>>, ~Fails(w, o) /\ pkg \in DOMAIN w.host)),
     installed |-> FALSE, err |-> FALSE]

\* checkIfInstalled (chocolatey: by GetInstalledVersion)
checkIfInstalled(pmType, w, o, pkg) ==
    LET yes == ~Fails(w, o) /\ pkg \in DOMAIN w.host
        w1 == Run(w, Command("probe", pkg, <<>>, yes))
        again == ~Fails(w1, o) /\ pkg \in DOMAIN w.host
        w2 == Run(w1, Command("probe", pkg, <<>>, again))
    IN IF pmType = TypeApt
       THEN (IF yes THEN [w |-> w1, installed |-> TRUE, err |-> FALSE]
             ELSE [w |-> w2, installed |-> again, err |-> FALSE])
       ELSE IF pmType \in ProbeErrorIsAbsent
       THEN [w |-> w1, installed |-> yes, err |-> FALSE]
       ELSE [w |-> w1, installed |-> yes, err |-> Fails(w, o)]

\* One install subprocess for pkg: "ok", "not_found" or "failed".
InstallOutcome(w, o, pkg, repository) ==
    IF Fails(w, o) THEN "failed"
    ELSE IF pkg \notin repository THEN "not_found"
    ELSE "ok"

AfterInstall(w, pkg, ver, outcome) ==
    IF outcome = "ok" THEN [w EXCEPT !.host = MapSet(@, pkg, ver)] ELSE w

\* What a plain install leaves installed: the newest version, or the
\* installed one.
PlainVersion(w, pkg) == IF pkg \in DOMAIN w.host THEN w.host[pkg] ELSE AvailableVersions[1]

\* The first install command of a driver, and whether the driver goes on to
\* a plain install when that command has failed (snap.InstallPackage).
FirstInstallCommand(pmType) == IF pmType = TypeSnap THEN "install --classic" ELSE "install"
FallsBackToPlainInstall_EveryDriver(pmType) == TRUE
FallsBackToPlainInstall(pmType) == pmType = TypeSnap

\* One install subprocess for pkg and what it leaves on the host.
Attempt(w, o, cmd, pkg, repository) ==
    LET outcome == InstallOutcome(w, o, pkg, repository) IN
    [w |-> AfterInstall(Run(w, Command(cmd, pkg, <<>>, outcome = "ok")),
                        pkg, PlainVersion(w, pkg), outcome),
     outcome |-> outcome]

\* InstallPackage, all drivers
InstallPackage(pmType, w, o, pkg, repository) ==
    LET done(wd, err) == [w |-> Returned(wd, "InstallPackage", pkg, <<>>, err), err |-> err]
        Retried(second) ==
            IF second.outcome = "ok" THEN done(second.w, Nil)
            ELSE done(second.w, Errorf("failed to install package", pkg))
        Installed(first) ==
            IF first.outcome = "ok" THEN done(first.w, Nil)
            ELSE IF FallsBackToPlainInstall(pmType)
            THEN Retried(Attempt(first.w, o, "install", pkg, repository))
            ELSE IF pmType = TypeHomebrew /\ first.outcome = "not_found"
            THEN done(first.w, PackageNotFoundError(pkg))
            ELSE done(first.w, Errorf("failed to install package", pkg))
        Probed(probe) ==
            IF probe.err
            THEN done(probe.w, Errorf("failed to check if package is installed", pkg))
            ELSE IF probe.installed THEN done(probe.w, PackageAlreadyInstalledError(pkg))
            ELSE Installed(Attempt(probe.w, o, FirstInstallCommand(pmType), pkg, repository))
    IN Probed(checkIfInstalled(pmType, w, o, pkg))

\* UninstallPackage: uninstallPackageFunc where the driver has one, else the
\* manager's "remove" command whatever the installed state.  Removing a
\* package that is not installed succeeds or fails as the manager decides.
UninstallPackage(pmType, w, o, pkg) ==
    LET done(wd, err) == [w |-> Returned(wd, "UninstallPackage", pkg, <<>>, err), err |-> err]
        Removed(w1, cmd) ==
            LET ran == ~Fails(w1, o)
                w2 == [Run(w1, Command(cmd, pkg, <<>>, ran))
                          EXCEPT !.host = IF ran THEN MapDel(@, pkg) ELSE @]
            IN IF ran THEN done(w2, Nil)
               ELSE done(w2, Errorf("failed to uninstall package", pkg))
        Probed(probe) ==
            IF probe.err
            THEN done(probe.w, Errorf("failed to check if package is installed", pkg))
            ELSE IF ~probe.installed THEN done(probe.w, Nil)
            ELSE Removed(probe.w, "uninstall")
    IN IF pmType \in HasUninstallPackageFunc
       THEN Probed(checkIfInstalled(pmType, w, o, pkg))
       ELSE Removed(w, "remove")

\* GetInstalledVersion: apt, homebrew and chocolatey ask the manager; the
\* other drivers have no versionCommand and answer with an empty version
\* without running anything.
HasVersionQuery == {TypeApt, TypeHomebrew, TypeChocolatey}

GetInstalledVersion(pmType, w, o, pkg) ==
    LET ran == ~Fails(w, o)
        w1 == Run(w, Command("installed version", pkg, <<>>, ran))
    IN IF pmType \notin HasVersionQuery THEN [w |-> w, version |-> <<>>, err |-> FALSE]
       ELSE IF ~ran THEN [w |-> w1, version |-> <<>>, err |-> TRUE]
       ELSE [w |-> w1, err |-> FALSE,
             version |-> IF pkg \in DOMAIN w.host THEN w.host[pkg] ELSE <<>>]

\* CheckVersion (base, apt, homebrew and chocolatey have the same body)
CheckVersion(pmType, w, o, pkg, constraint) ==
    LET done(got, satisfies, err) ==
            [w |-> ReturnedInfo(got.w, "CheckVersion", pkg, constraint, err, satisfies),
             version |-> got.version, satisfies |-> satisfies, err |-> err]
        Decided(got, sat) ==
            IF sat.err THEN done(got, FALSE, Errorf("invalid version constraint", pkg))
            ELSE done(got, sat.ok, Nil)
        Parsed(got, installedVer) ==
            IF ~installedVer.ok THEN done(got, FALSE, Nil)
            ELSE Decided(got, Satisfies(installedVer, constraint))
        Got(got) ==
            IF got.err THEN done(got, FALSE, Errorf("failed to get installed version", pkg))
            ELSE IF got.version = <<>> THEN done(got, FALSE, Nil)
            ELSE Parsed(got, Parse(got.version))
    IN Got(GetInstalledVersion(pmType, w, o, pkg))

\* The first of the versions that parses and satisfies the constraint; <<>>
\* when there is none.
SelectVersion(versions, constraint) ==
    LET Good(v) == v.ok /\ Satisfies(v, constraint).ok
        First(good) ==
            IF good = {} THEN <<>> ELSE versions[CHOOSE i \in good : \A j \in good : i <= j]
    IN First({i \in 1..Len(versions) : Good(Parse(versions[i]))})

\* InstallVersion.  apt: the constraint text itself follows "pkg=".  homebrew
\* and chocolatey: a version selected from the manager's list.  The other
\* drivers inherit basePackageManager.InstallVersion, and their
\* installPackageFunc is nil.
InstallVersion(pmType, w, o, pkg, constraint, repository) ==
    LET done(wd, err) == [w |-> Returned(wd, "InstallVersion", pkg, constraint, err), err |-> err]
        Ran(w1, cmd, ver, outcome) ==
            LET w2 == AfterInstall(Run(w1, Command(cmd, pkg, ver, outcome = "ok")),
                                   pkg, ver, outcome)
            IN IF outcome = "ok" THEN done(w2, Nil)
               ELSE done(w2, Errorf("failed to install package version", pkg))
        \* apt
        Exact(w1) ==
            Ran(w1, "install pkg=version", constraint,
                IF Fails(w1, o) THEN "failed"
                ELSE IF pkg \notin repository \/ constraint \notin Range(AvailableVersions)
                THEN "not_found" ELSE "ok")
        \* homebrew, chocolatey
        Selected(w2, selectedVersion) ==
            IF selectedVersion = <<>>
            THEN done(w2, Errorf("no version found matching constraint", pkg))
            ELSE Ran(w2, "install version", selectedVersion,
                     InstallOutcome(w2, o, pkg, repository))
        Listed(w1, listed) ==
            IF ~listed
            THEN done(Run(w1, Command("available versions", pkg, <<>>, listed)),
                      Errorf("failed to get available versions", pkg))
            ELSE Selected(Run(w1, Command("available versions", pkg, <<>>, listed)),
                          SelectVersion(AvailableVersions, constraint))
        Checked(check) ==
            IF check.err.type # "nil"
            THEN done(check.w, Errorf("failed to check package version", pkg))
            ELSE IF check.satisfies THEN done(check.w, Nil)
            ELSE IF pmType = TypeApt THEN Exact(check.w)
            ELSE Listed(check.w, ~Fails(check.w, o) /\ pkg \in repository)
    IN IF pmType \in OverridesInstallVersion
       THEN Checked(CheckVersion(pmType, w, o, pkg, constraint))
       ELSE IF pmType \in HasInstallPackageFunc
       THEN InstallPackage(pmType, w, o, pkg, repository)
       ELSE done(w, NilFuncPanic)

\* The orchestrator or driver operation in progress (none at rest): its
\* arguments, the position it has reached (pc), the driver method it calls
\* next (want), and the locals of the functions on its stack.
NoWant == [api |-> "none", pkg |-> "", arg |-> <<>>]
NoOperation ==
    [op |-> "none", state |-> "idle", packages |-> <<>>, versions |-> EmptyMap,
     i |-> 0, todo |-> <<>>, failed |-> <<>>, result |-> Nil,
     pc |-> "", want |-> NoWant, pkg |-> "", mappedPkg |-> "", version |-> <<>>]

\* The function of package installer or version a caller applies (none at
\* rest): what it is given (arg) and what it returns (out) once it has run.
NoLibCall == [fn |-> "none", arg |-> <<>>, done |-> FALSE, out |-> <<>>]

----------------------------------------------------------------------------
(* Goroutines *)

NoCall == [op |-> "none", id |-> generateID(0)]
NoRecord == [ID |-> generateID(0), Timestamp |-> 0, Packages |-> 0,
             Environment |-> NilEnv, Metadata |-> 0, Status |-> ""]
NoHeld == [has |-> FALSE, live |-> FALSE, rec |-> NoRecord]
NoFrame == [visited |-> {}, failed |-> <<>>, final |-> FALSE]

\* NewInstallationTracker: load the journal if the file exists.
NewInstallationTracker(file) ==
    IF file.exists THEN load(file.content)
    ELSE [installations |-> EmptyMap, heap |-> <<>>]

Fresh(file) ==
    /\ installations = NewInstallationTracker(file).installations
    /\ heap = NewInstallationTracker(file).heap
    /\ mu = NoOne
    /\ pc = [p \in Procs |-> "idle"]
    /\ call = [p \in Procs |-> NoCall]
    /\ result = [p \in Procs |-> "none"]
    /\ held = NoHeld
    /\ frame = [p \in Procs |-> NoFrame]

\* The tracker does not use the orchestrator.
InstallerAtRest ==
    /\ packageMappings = packageMappingsSeed
    /\ pm = TypeApt
    /\ repo = {}
    /\ host = EmptyMap
    /\ cmds = <<>>
    /\ calls = <<>>
    /\ orch = NoOperation
    /\ lib = NoLibCall

Init ==
    /\ journal \in InitialJournals
    /\ now \in 1..MaxTime
    /\ driver = <<>>
    /\ Fresh(journal)
    /\ InstallerAtRest

Tick ==
    /\ now < MaxTime
    /\ now' = now + 1
    /\ UNCHANGED <<installations, heap, journal, mu, pc, call, result, held, frame, driver>>

----------------------------------------------------------------------------
(* The public methods.  Each action is the method from its t.mu.Lock()     *)
(* (the guard mu = NoOne) to its return or to the next point where the     *)
(* goroutine can be made to wait.  sync.Mutex is not reentrant: Lock on a  *)
(* locked mutex waits until some goroutine unlocks it, whoever holds it.   *)

Finish(p, c, r) ==
    /\ pc' = [pc EXCEPT ![p] = "done"]
    /\ call' = [call EXCEPT ![p] = c]
    /\ result' = [result EXCEPT ![p] = r]

\* The method calls t.save() with t.mu still locked: the goroutine arrives at
\* save's own t.mu.Lock() (line 232).
CallSave(p, c) ==
    /\ pc' = [pc EXCEPT ![p] = "save_Lock"]
    /\ call' = [call EXCEPT ![p] = c]
    /\ mu' = p
    /\ UNCHANGED result

StartInstallation(p, env) ==
    /\ pc[p] = "idle"
    /\ mu = NoOne
    /\ Len(heap) + 2 <= MaxHeap
    /\ LET id == generateID(now)
           record == [ID |-> id, Timestamp |-> now, Packages |-> Len(heap) + 1,
                      Environment |-> env, Metadata |-> Len(heap) + 2,
                      Status |-> StatusInProgress]
       IN /\ heap' = heap \o <<EmptyMap, EmptyMap>>
          /\ installations' = MapSet(installations, id, record)
          /\ CallSave(p, [op |-> "StartInstallation", id |-> id])
    /\ UNCHANGED <<journal, now, held, frame, driver>>

AddPackage(p, installationID, pkg) ==
    /\ pc[p] = "idle"
    /\ mu = NoOne
    /\ LET c == [op |-> "AddPackage", id |-> installationID] IN
       IF installationID \notin DOMAIN installations
       THEN /\ Finish(p, c, "not_found")
            /\ UNCHANGED <<installations, heap, mu>>
       ELSE IF installations[installationID].Packages = 0
       THEN \* assignment to entry in nil map
            /\ Finish(p, c, "panic")
            /\ UNCHANGED <<installations, heap, mu>>
       ELSE /\ heap' = [heap EXCEPT ![installations[installationID].Packages] =
                           MapSet(@, pkg.Name, ConvertPackageInfo(pkg))]
            /\ CallSave(p, c)
            /\ UNCHANGED installations
    /\ UNCHANGED <<journal, now, held, frame, driver>>

CompleteInstallation(p, installationID) ==
    /\ pc[p] = "idle"
    /\ mu = NoOne
    /\ LET c == [op |-> "CompleteInstallation", id |-> installationID] IN
       IF installationID \notin DOMAIN installations
       THEN /\ Finish(p, c, "not_found")
            /\ UNCHANGED <<installations, mu>>
       ELSE /\ installations' = [installations EXCEPT
                   ![installationID].Status = StatusCompleted,
                   ![installationID].Timestamp = now]
            /\ CallSave(p, c)
    /\ UNCHANGED <<heap, journal, now, held, frame, driver>>

FailInstallation(p, installationID, reason) ==
    /\ pc[p] = "idle"
    /\ mu = NoOne
    /\ LET c == [op |-> "FailInstallation", id |-> installationID] IN
       IF installationID \notin DOMAIN installations
       THEN /\ Finish(p, c, "not_found")
            /\ UNCHANGED <<installations, heap, mu>>
       ELSE IF installations[installationID].Metadata = 0
       THEN \* assignment to entry in nil map, after the status was set; the
            \* deferred Unlock runs while the panic unwinds.
            /\ installations' = [installations EXCEPT
                   ![installationID].Status = StatusFailed]
            /\ Finish(p, c, "panic")
            /\ UNCHANGED <<heap, mu>>
       ELSE /\ installations' = [installations EXCEPT
                   ![installationID].Status = StatusFailed,
                   ![installationID].Timestamp = now]
            /\ heap' = [heap EXCEPT ![installations[installationID].Metadata] =
                           MapSet(@, "failure_reason", reason)]
            /\ CallSave(p, c)
    /\ UNCHANGED <<journal, now, held, frame, driver>>

\* Rollback as it would be with the t.mu.Unlock() of line 155 forgotten.
Rollback_NoUnlockOnNotFound(p, installationID) ==
    /\ pc[p] = "idle"
    /\ mu = NoOne
    /\ LET c == [op |-> "Rollback", id |-> installationID] IN
       IF installationID \notin DOMAIN installations
       THEN /\ Finish(p, c, "not_found")
            /\ mu' = p
            /\ UNCHANGED installations
       ELSE /\ installations' = [installations EXCEPT
                   ![installationID].Status = StatusRollingBack]
            /\ CallSave(p, c)
    /\ UNCHANGED <<heap, journal, now, held, frame, driver>>

Rollback(p, installationID) ==
    /\ pc[p] = "idle"
    /\ mu = NoOne
    /\ LET c == [op |-> "Rollback", id |-> installationID] IN
       IF installationID \notin DOMAIN installations
       THEN /\ Finish(p, c, "not_found")
            /\ UNCHANGED <<installations, mu>>
       ELSE /\ installations' = [installations EXCEPT
                   ![installationID].Status = StatusRollingBack]
            /\ CallSave(p, c)
    /\ UNCHANGED <<heap, journal, now, held, frame, driver>>

GetInstallation(p, id) ==
    /\ pc[p] = "idle"
    /\ mu = NoOne
    /\ LET c == [op |-> "GetInstallation", id |-> id] IN
       IF id \notin DOMAIN installations
       THEN /\ Finish(p, c, "not_found")
            /\ held' = NoHeld
       ELSE \* recordCopy := *record: the struct is copied, its maps are not
            /\ Finish(p, c, "ok")
            /\ held' = [has |-> TRUE, live |-> FALSE, rec |-> installations[id]]
    /\ UNCHANGED <<installations, heap, journal, mu, now, frame, driver>>

----------------------------------------------------------------------------
(* What a goroutine does when it runs again.  A goroutine at save_Lock     *)
(* goes on when t.mu is unlocked; the only Unlock calls of the tracker are *)
(* those of the method that locked it, which is the method waiting here.   *)

\* save, from the point where its t.mu.Lock() has been granted to its return:
\* os.Create truncates the file, Encode writes the whole map, the deferred
\* Unlock releases the mutex.
save(io) ==
    IF io = "ok" THEN File(Encode(installations, heap))
    ELSE IF io = "create_failed" THEN journal
    ELSE Truncated

SaveOutcomes == {"ok", "create_failed", "encode_failed"}

\* The rest of the method that called save.
AfterSave(p, io) ==
    LET err == io # "ok"
        id == call[p].id
    IN
    /\ journal' = save(io)
    /\ mu' = NoOne
    /\ call' = call
    /\ UNCHANGED <<heap, now, driver>>
    /\ IF call[p].op = "StartInstallation"
       THEN /\ installations' = IF err THEN MapDel(installations, id) ELSE installations
            /\ held' = IF err THEN held
                       ELSE [has |-> TRUE, live |-> TRUE, rec |-> installations[id]]
            /\ pc' = [pc EXCEPT ![p] = "done"]
            /\ result' = [result EXCEPT ![p] = IF err THEN "save_failed" ELSE "ok"]
            /\ frame' = frame
       ELSE IF call[p].op = "Rollback" /\ ~frame[p].final
       THEN /\ pc' = [pc EXCEPT ![p] = IF err THEN "done" ELSE "Rollback_loop"]
            /\ result' = [result EXCEPT ![p] = IF err THEN "save_failed" ELSE "none"]
            /\ frame' = [frame EXCEPT ![p] = NoFrame]
            /\ UNCHANGED <<installations, held>>
       ELSE IF call[p].op = "Rollback"
       THEN /\ pc' = [pc EXCEPT ![p] = "done"]
            /\ result' = [result EXCEPT ![p] =
                            IF err THEN "save_failed"
                            ELSE IF frame[p].failed # <<>> THEN "rollback_error"
                            ELSE "ok"]
            /\ UNCHANGED <<installations, held, frame>>
       ELSE /\ pc' = [pc EXCEPT ![p] = "done"]
            /\ result' = [result EXCEPT ![p] = IF err THEN "save_failed" ELSE "ok"]
            /\ UNCHANGED <<installations, held, frame>>

\* One iteration of `for _, pkg := range record.Packages`, t.mu unlocked; the
\* loop ends when the map has no entry left to visit.
RollbackUninstall(p) ==
    LET record == installations[call[p].id]
        pkgs == IF record.Packages = 0 THEN EmptyMap ELSE heap[record.Packages]
        todo == (DOMAIN pkgs) \ frame[p].visited
    IN
    /\ UNCHANGED <<installations, heap, journal, mu, now, call, result, held>>
    /\ IF todo = {}
       THEN /\ pc' = [pc EXCEPT ![p] = "Rollback_Lock"]
            /\ UNCHANGED <<frame, driver>>
       ELSE /\ Len(driver) < MaxDriverCalls
            /\ \E n \in todo, ok \in BOOLEAN :
                 /\ driver' = Append(driver, [name |-> pkgs[n].Name, ok |-> ok, by |-> p])
                 /\ frame' = [frame EXCEPT
                       ![p].visited = @ \cup {n},
                       ![p].failed = IF ok THEN @ ELSE Append(@, pkgs[n].Name)]
            /\ pc' = pc

\* Rollback from its second t.mu.Lock() (line 180) to its second t.save().
RollbackFinish(p) ==
    LET id == call[p].id
        record == installations[id]
    IN
    /\ mu = NoOne
    /\ UNCHANGED <<journal, now, held, driver>>
    /\ IF frame[p].failed # <<>> /\ record.Metadata = 0
       THEN \* assignment to entry in nil map
            /\ installations' = [installations EXCEPT ![id].Status = StatusRollbackFailed]
            /\ Finish(p, call[p], "panic")
            /\ UNCHANGED <<heap, mu, frame>>
       ELSE /\ installations' = [installations EXCEPT
                   ![id].Status = IF frame[p].failed # <<>>
                                  THEN StatusRollbackFailed ELSE StatusRolledBack,
                   ![id].Timestamp = now]
            /\ heap' = IF frame[p].failed # <<>>
                       THEN [heap EXCEPT ![record.Metadata] =
                               MapSet(@, "rollback_error", frame[p].failed)]
                       ELSE heap
            /\ frame' = [frame EXCEPT ![p].final = TRUE]
            /\ CallSave(p, call[p])

\* The caller takes the result of a finished call.
Return(p) ==
    /\ pc' = [pc EXCEPT ![p] = "idle"]
    /\ call' = [call EXCEPT ![p] = NoCall]
    /\ result' = [result EXCEPT ![p] = "none"]
    /\ frame' = [frame EXCEPT ![p] = NoFrame]
    /\ UNCHANGED <<installations, heap, journal, mu, now, held, driver>>

Resume(p) ==
    /\ pc[p] # "idle"
    /\ CASE pc[p] = "done" -> Return(p)
         [] pc[p] = "save_Lock" -> mu = NoOne /\ \E io \in SaveOutcomes : AfterSave(p, io)
         [] pc[p] = "Rollback_loop" -> RollbackUninstall(p)
         [] pc[p] = "Rollback_Lock" -> RollbackFinish(p)

----------------------------------------------------------------------------
(* What a caller does with the record it was given.                        *)

\* The record a caller's reference denotes: the live record for the pointer
\* StartInstallation returned, the caller's own struct for a copy.
HeldRecord ==
    IF held.live /\ held.rec.ID \in DOMAIN installations
    THEN installations[held.rec.ID] ELSE held.rec

CallerSetStatus(p, s) ==
    /\ pc[p] = "idle"
    /\ held.has
    /\ HeldRecord.Status # s
    /\ IF held.live /\ held.rec.ID \in DOMAIN installations
       THEN /\ installations' = [installations EXCEPT ![held.rec.ID].Status = s]
            /\ held' = held
       ELSE /\ held' = [held EXCEPT !.rec.Status = s]
            /\ installations' = installations
    /\ UNCHANGED <<heap, journal, mu, now, pc, call, result, frame, driver>>

CallerPutPackage(p, pkg) ==
    /\ pc[p] = "idle"
    /\ held.has
    /\ HeldRecord.Packages # 0
    /\ heap' = [heap EXCEPT ![HeldRecord.Packages] =
                   MapSet(@, pkg.Name, ConvertPackageInfo(pkg))]
    /\ heap' # heap
    /\ UNCHANGED <<installations, journal, mu, now, pc, call, result, held, frame, driver>>

CallerDeletePackage(p, n) ==
    /\ pc[p] = "idle"
    /\ held.has
    /\ HeldRecord.Packages # 0
    /\ n \in DOMAIN heap[HeldRecord.Packages]
    /\ heap' = [heap EXCEPT ![HeldRecord.Packages] = MapDel(@, n)]
    /\ UNCHANGED <<installations, journal, mu, now, pc, call, result, held, frame, driver>>

CallerPutMetadata(p, k, v) ==
    /\ pc[p] = "idle"
    /\ held.has
    /\ HeldRecord.Metadata # 0
    /\ heap' = [heap EXCEPT ![HeldRecord.Metadata] = MapSet(@, k, v)]
    /\ heap' # heap
    /\ UNCHANGED <<installations, journal, mu, now, pc, call, result, held, frame, driver>>

----------------------------------------------------------------------------
(* The process ends (it exits, is killed, or the Go runtime stops it) and a *)
(* new process constructs a tracker on the same journal file.              *)

Restart ==
    /\ journal.valid
    /\ held.has \/ \E p \in Procs : pc[p] # "idle"
    /\ installations' = NewInstallationTracker(journal).installations
    /\ heap' = NewInstallationTracker(journal).heap
    /\ mu' = NoOne
    /\ pc' = [p \in Procs |-> "idle"]
    /\ call' = [p \in Procs |-> NoCall]
    /\ result' = [p \in Procs |-> "none"]
    /\ held' = NoHeld
    /\ frame' = [p \in Procs |-> NoFrame]
    /\ driver' = <<>>
    /\ UNCHANGED <<journal, now>>

\* The ids a caller passes: the id of every record of the tracker, and one id
\* of no record (the methods only look the id up in the map).
UnknownIds ==
    {id \in Ids \ DOMAIN installations :
        \A o \in Ids \ DOMAIN installations : id[2] <= o[2]}

CallIds == (DOMAIN installations) \cup UnknownIds

\* What the callers write into a record they were given.
CallerPackage == [Name |-> "b", Version |-> "1.0"]

Next ==
    \/ Tick /\ UNCHANGED ivars
    \/ Restart /\ UNCHANGED ivars
    \/ \E p \in Procs :
        \/ \E env \in Envs : StartInstallation(p, env) /\ UNCHANGED ivars
        \/ \E id \in CallIds, pkg \in PackageInputs : AddPackage(p, id, pkg) /\ UNCHANGED ivars
        \/ \E id \in CallIds : CompleteInstallation(p, id) /\ UNCHANGED ivars
        \/ \E id \in CallIds, reason \in Reasons :
              FailInstallation(p, id, reason) /\ UNCHANGED ivars
        \/ \E id \in CallIds : Rollback(p, id) /\ UNCHANGED ivars
        \/ \E id \in CallIds : GetInstallation(p, id) /\ UNCHANGED ivars
        \/ Resume(p) /\ UNCHANGED ivars
        \/ CallerSetStatus(p, StatusCompleted) /\ UNCHANGED ivars
        \/ CallerPutPackage(p, CallerPackage) /\ UNCHANGED ivars
        \/ CallerDeletePackage(p, CallerPackage.Name) /\ UNCHANGED ivars
        \/ CallerPutMetadata(p, "note", "x") /\ UNCHANGED ivars

Spec == Init /\ [][Next]_vars

\* The Go scheduler runs every goroutine that can run: a goroutine whose
\* next step is possible takes it in the end.
Scheduling == \A p \in Procs : WF_vars(Resume(p) /\ UNCHANGED ivars)

SpecLive == Init /\ [][Next]_vars /\ Scheduling

----------------------------------------------------------------------------
(* The orchestrator and the drivers as a state machine: one caller, one    *)
(* operation at a time (the orchestrator is synchronous).  A loop of a     *)
(* batch operation takes one step per package.                             *)

LogicalNames == {"nodejs", "git", "curl"}
DriverNames == {"git", "node"}
VersionedNames == {"git"}
AllNames == {"nodejs", "node", "OpenJS.NodeJS", "git", "Git.Git", "curl"}

\* ">=1.0.0", "<2.0.0", "1.0.0"
Constraints == { <<">", "=", "1", ".", "0", ".", "0">>,
                 <<"<", "2", ".", "0", ".", "0">>,
                 <<"1", ".", "0", ".", "0">> }

\* The package lists a caller passes: up to MaxBatch names, none twice.
PackageLists(names) ==
    UNION { {l \in [1..n -> names] : \A i, j \in 1..n : l[i] = l[j] => i = j} :
            n \in 0..MaxBatch }
VersionedMaps == UNION {[S -> Constraints] : S \in SUBSET VersionedNames}
\* The orders in which a range over a map with these keys may visit them.
Orders(keys) ==
    {l \in [1..Cardinality(keys) -> keys] : \A i, j \in DOMAIN l : l[i] = l[j] => i = j}

\* What the manager's repository holds: everything but the names the table
\* maps nodejs to (the table is stale), or git alone.
Repositories == {AllNames \ {"node", "OpenJS.NodeJS"}, {"git", "Git.Git"}}

\* What is installed on the host when the process starts: nothing, git in
\* either version, or everything.
InitialHosts ==
    {EmptyMap} \cup {[n \in {"git", "Git.Git"} |-> v] : v \in Range(AvailableVersions)}
      \cup {[n \in AllNames |-> AvailableVersions[1]]}

Oracles == [1..MaxCommands -> {"ok", "fail"}]

World == [host |-> host, cmds |-> cmds, calls |-> calls, n |-> 0]

Commit(w) ==
    /\ host' = w.host
    /\ cmds' = w.cmds
    /\ calls' = w.calls

Begin(op, packages, versions, order) ==
    [NoOperation EXCEPT !.op = op, !.state = "running", !.packages = packages,
                         !.versions = versions, !.i = 1, !.todo = order]

Done(f, err) == [f EXCEPT !.state = "done", !.result = err, !.pc = "", !.want = NoWant]

\* The function calls the driver method api from its position at.
Call(f, at, api, pkg, arg) ==
    [f EXCEPT !.pc = at, !.want = [api |-> api, pkg |-> pkg, arg |-> arg]]

\* What a driver method hands back to its caller.
Answer3(err, satisfies, version) == [err |-> err, satisfies |-> satisfies, version |-> version]

----------------------------------------------------------------------------
(* The orchestrator (pkg/installer/installer.go), from one driver call to   *)
(* the next.  f is the operation, r what the driver method returned.        *)

\* VerifyInstallation; f.version is <<>> for a nil constraint.
VerifyInstallation(f) ==
    Call(f, "VerifyInstallation.GetInstalledVersion", "GetInstalledVersion", f.pkg, <<>>)

RECURSIVE BatchInstallFrom(_)

\* VerifyInstallation returns err: the orchestrator's InstallPackage prints
\* a warning, BatchInstall returns the error or goes on.
VerifyInstallationReturns(f, err) ==
    IF f.op = "InstallPackage" THEN Done(f, Nil)
    ELSE IF err.type # "nil" THEN Done(f, Errorf("verification failed", f.pkg))
    ELSE IF f.i <= Len(f.packages) THEN BatchInstallFrom([f EXCEPT !.i = @ + 1])
    ELSE BatchInstallFrom([f EXCEPT !.todo = Tail(@)])

VerifyInstallationGot(f, r) ==
    IF r.err.type # "nil"
    THEN VerifyInstallationReturns(f, Errorf("failed to verify installation", f.pkg))
    ELSE IF r.version = <<>>
    THEN VerifyInstallationReturns(f, Errorf("package is not installed", f.pkg))
    ELSE IF f.version = <<>> THEN VerifyInstallationReturns(f, Nil)
    ELSE Call(f, "VerifyInstallation.CheckVersion", "CheckVersion", f.pkg, f.version)

VerifyInstallationChecked(f, r) ==
    IF r.err.type # "nil"
    THEN VerifyInstallationReturns(f, Errorf("failed to check version", f.pkg))
    ELSE IF ~r.satisfies THEN VerifyInstallationReturns(f, Errorf("version check failed", f.pkg))
    ELSE VerifyInstallationReturns(f, Nil)

\* BatchInstall: the loop over packages, then the loop over versionedPackages
\* (a Go map, ranged over in the order f.todo).
BatchInstallFrom(f) ==
    IF f.i <= Len(f.packages)
    THEN Call([f EXCEPT !.pkg = f.packages[f.i], !.version = <<>>],
              "BatchInstall.install", "InstallPackage", f.packages[f.i], <<>>)
    ELSE IF f.todo # <<>>
    THEN Call([f EXCEPT !.pkg = Head(f.todo), !.version = f.versions[Head(f.todo)]],
              "BatchInstall.install", "InstallVersion", Head(f.todo), f.versions[Head(f.todo)])
    ELSE Done(f, Nil)

BatchInstallInstalled(f, r) ==
    IF r.err.type # "nil" THEN Done(f, Errorf("failed to install", f.pkg))
    ELSE VerifyInstallation(f)

RECURSIVE batchInstallFrom(_)

\* installWithMapping returns err to batchInstall or to the orchestrator's
\* InstallPackage.
installWithMappingReturns(f, err) ==
    IF f.op = "InstallPackages"
    THEN batchInstallFrom([f EXCEPT !.i = @ + 1,
                                    !.failed = IF err.type # "nil"
                                               THEN Append(@, [pkg |-> f.pkg, err |-> err])
                                               ELSE @])
    ELSE IF err.type # "nil" THEN Done(f, err)
    ELSE VerifyInstallation([f EXCEPT !.result = err])

\* installWithMapping, to its first driver call; version is <<>> when the
\* caller gave no constraint.
\* installWithMapping as it would be if it went on with the original name
\* after a mapping error.
installWithMapping_IgnoresMappingError(f, mappings, pmType, pkg, version) ==
    LET Named(mappedPkg) ==
            IF version # <<>>
            THEN Call([f EXCEPT !.pkg = pkg, !.mappedPkg = mappedPkg, !.version = version],
                      "installWithMapping.CheckVersion", "CheckVersion", mappedPkg, version)
            ELSE Call([f EXCEPT !.pkg = pkg, !.mappedPkg = mappedPkg, !.version = version],
                      "installWithMapping.install", "InstallPackage", mappedPkg, <<>>)
        Mapped(mapped) == Named(IF mapped.name = "" THEN pkg ELSE mapped.name)
    IN Mapped(GetPackageName(mappings, pkg, pmType))

installWithMapping(f, mappings, pmType, pkg, version) ==
    LET Named(mapped, mappedPkg) ==
            IF mapped.err
            THEN installWithMappingReturns([f EXCEPT !.pkg = pkg, !.version = version],
                                           Errorf("package mapping error", pkg))
            ELSE IF version # <<>>
            THEN Call([f EXCEPT !.pkg = pkg, !.mappedPkg = mappedPkg, !.version = version],
                      "installWithMapping.CheckVersion", "CheckVersion", mappedPkg, version)
            ELSE Call([f EXCEPT !.pkg = pkg, !.mappedPkg = mappedPkg, !.version = version],
                      "installWithMapping.install", "InstallPackage", mappedPkg, <<>>)
        Mapped(mapped) == Named(mapped, IF mapped.name = "" THEN pkg ELSE mapped.name)
    IN Mapped(GetPackageName(mappings, pkg, pmType))

installWithMappingChecked(f, r) ==
    IF r.err.type = "nil" /\ r.satisfies THEN installWithMappingReturns(f, Nil)
    ELSE Call(f, "installWithMapping.install", "InstallVersion", f.mappedPkg, f.version)

\* installWithMapping as it would be if it retried after every error.
installWithMappingInstalled_RetryOnAnyError(f, r) ==
    IF r.err.type # "nil" /\ f.mappedPkg # f.pkg
    THEN Call(f, "installWithMapping.retry",
              IF f.version # <<>> THEN "InstallVersion" ELSE "InstallPackage",
              f.pkg, f.version)
    ELSE installWithMappingReturns(f, r.err)

\* The type assertion holds of a PackageNotFoundError itself only.
installWithMappingInstalled(f, r) ==
    IF r.err.type = "NotFound" /\ f.mappedPkg # f.pkg
    THEN Call(f, "installWithMapping.retry",
              IF f.version # <<>> THEN "InstallVersion" ELSE "InstallPackage",
              f.pkg, f.version)
    ELSE installWithMappingReturns(f, r.err)

\* batchInstall: the loop over packages, and its return
batchInstallFrom(f) ==
    IF f.i <= Len(f.packages)
    THEN installWithMapping(f, packageMappings, pm, f.packages[f.i], <<>>)
    ELSE Done(f, IF f.failed # <<>> THEN Errorf("failed to install packages", "") ELSE Nil)

\* winget.InstallMultiple: InstallPackage for each package in turn
InstallMultipleFrom(f) ==
    IF f.i <= Len(f.packages)
    THEN Call([f EXCEPT !.pkg = f.packages[f.i]],
              "InstallMultiple.InstallPackage", "InstallPackage", f.packages[f.i], <<>>)
    ELSE Done(f, Nil)

\* InstallMultiple as it would be if AlreadyInstalled ended the loop.
InstallMultipleInstalled_AlreadyInstalledFatal(f, r) ==
    IF r.err.type # "nil"
    THEN Done(f, Errorf("failed to install package", f.pkg))
    ELSE InstallMultipleFrom([f EXCEPT !.i = @ + 1])

InstallMultipleInstalled(f, r) ==
    IF r.err.type \notin {"nil", "AlreadyInstalled"}
    THEN Done(f, Errorf("failed to install package", f.pkg))
    ELSE InstallMultipleFrom([f EXCEPT !.i = @ + 1])

\* The driver method returns r to the function at f.pc.  A panic unwinds
\* the whole operation.
Returns(f, r) ==
    IF r.err.type = "panic" THEN Done(f, r.err)
    ELSE IF f.pc = "installWithMapping.CheckVersion" THEN installWithMappingChecked(f, r)
    ELSE IF f.pc = "installWithMapping.install" THEN installWithMappingInstalled(f, r)
    ELSE IF f.pc = "installWithMapping.retry" THEN installWithMappingReturns(f, r.err)
    ELSE IF f.pc = "VerifyInstallation.GetInstalledVersion" THEN VerifyInstallationGot(f, r)
    ELSE IF f.pc = "VerifyInstallation.CheckVersion" THEN VerifyInstallationChecked(f, r)
    ELSE IF f.pc = "BatchInstall.install" THEN BatchInstallInstalled(f, r)
    ELSE IF f.pc = "InstallMultiple.InstallPackage" THEN InstallMultipleInstalled(f, r)
    ELSE Done(f, r.err)

----------------------------------------------------------------------------
(* The installer as a state machine: a process detects its package manager *)
(* and runs one operation of the orchestrator or of the driver.            *)

InitInstaller ==
    /\ packageMappings = packageMappingsSeed
    /\ pm \in ManagerTypes
    /\ repo \in Repositories
    /\ host \in InitialHosts
    /\ cmds = <<>>
    /\ calls = <<>>
    /\ orch = NoOperation
    /\ lib = NoLibCall
    /\ journal = NoFile
    /\ now = 1
    /\ driver = <<>>
    /\ Fresh(NoFile)

Starts(f) ==
    /\ orch' = f
    /\ UNCHANGED <<packageMappings, pm, repo, host, cmds, calls, lib>>
    /\ UNCHANGED tvars

\* InstallPackages, to the first driver call of batchInstall
InstallPackages(packages, versions, confirmed) ==
    /\ orch.state = "idle"
    /\ Starts(IF packages = <<>> /\ DOMAIN versions = {}
              THEN Done(Begin("InstallPackages", packages, versions, <<>>),
                        Errorf("no packages to install", ""))
              ELSE IF ~confirmed
              THEN Done(Begin("InstallPackages", packages, versions, <<>>),
                        Errorf("installation cancelled by user", ""))
              ELSE batchInstallFrom(Begin("InstallPackages", packages, versions, <<>>)))

\* BatchInstall, to its first driver call
BatchInstall(packages, versionedPackages, order) ==
    /\ orch.state = "idle"
    /\ Starts(IF Len(packages) + Cardinality(DOMAIN versionedPackages) = 0
              THEN Done(Begin("BatchInstall", packages, versionedPackages, order), Nil)
              ELSE BatchInstallFrom(Begin("BatchInstall", packages, versionedPackages, order)))

\* The orchestrator's InstallPackage, to its first driver call
OrchestratorInstallPackage(pkg, version, confirmed) ==
    /\ orch.state = "idle"
    /\ Starts(IF ~confirmed
              THEN Done(Begin("InstallPackage", <<pkg>>, EmptyMap, <<>>),
                        Errorf("installation cancelled by user", ""))
              ELSE installWithMapping(
                       Begin("InstallPackage", <<pkg>>,
                             IF version = <<>> THEN EmptyMap ELSE [n \in {pkg} |-> version], <<>>),
                       packageMappings, pm, pkg, version))

\* A caller uses the driver directly.
CallInstallPackage(pkg) ==
    /\ orch.state = "idle"
    /\ Starts(Call(Begin("driver.InstallPackage", <<pkg>>, EmptyMap, <<>>),
                   "caller", "InstallPackage", pkg, <<>>))

CallInstallVersion(pkg, constraint) ==
    /\ orch.state = "idle"
    /\ Starts(Call(Begin("driver.InstallVersion", <<pkg>>, [n \in {pkg} |-> constraint], <<>>),
                   "caller", "InstallVersion", pkg, constraint))

\* InstallVersion called again with the same arguments when it has returned
\* without error.
CallInstallVersionAgain ==
    /\ orch.state = "done"
    /\ orch.op = "driver.InstallVersion"
    /\ orch.result.type = "nil"
    /\ orch' = Call([orch EXCEPT !.op = "driver.InstallVersion twice", !.state = "running"],
                    "caller", "InstallVersion", orch.packages[1],
                    orch.versions[orch.packages[1]])
    /\ UNCHANGED <<packageMappings, pm, repo, host, cmds, calls, lib>>
    /\ UNCHANGED tvars

CallUninstallPackage(pkg) ==
    /\ orch.state = "idle"
    /\ Starts(Call(Begin("driver.UninstallPackage", <<pkg>>, EmptyMap, <<>>),
                   "caller", "UninstallPackage", pkg, <<>>))

CallInstallMultiple(packages) ==
    /\ orch.state = "idle"
    /\ pm = TypeWinget
    /\ Starts(InstallMultipleFrom(Begin("driver.InstallMultiple", packages, EmptyMap, <<>>)))

\* The driver runs the method the operation calls, and the operation goes on
\* to its next driver call or to its return.
Wanted(api) ==
    /\ orch.state = "running"
    /\ orch.want.api = api

Ran(w, r) ==
    /\ Commit(w)
    /\ orch' = Returns(orch, r)
    /\ UNCHANGED <<packageMappings, pm, repo, lib>>
    /\ UNCHANGED tvars

DriverInstallPackage ==
    /\ Wanted("InstallPackage")
    /\ \E o \in Oracles :
         LET Returned1(r) == Ran(r.w, Answer3(r.err, FALSE, <<>>))
         IN Returned1(InstallPackage(pm, World, o, orch.want.pkg, repo))

DriverInstallVersion ==
    /\ Wanted("InstallVersion")
    /\ \E o \in Oracles :
         LET Returned1(r) == Ran(r.w, Answer3(r.err, FALSE, <<>>))
         IN Returned1(InstallVersion(pm, World, o, orch.want.pkg, orch.want.arg, repo))

DriverUninstallPackage ==
    /\ Wanted("UninstallPackage")
    /\ \E o \in Oracles :
         LET Returned1(r) == Ran(r.w, Answer3(r.err, FALSE, <<>>))
         IN Returned1(UninstallPackage(pm, World, o, orch.want.pkg))

DriverCheckVersion ==
    /\ Wanted("CheckVersion")
    /\ \E o \in Oracles :
         LET Returned1(r) == Ran(r.w, Answer3(r.err, r.satisfies, r.version))
         IN Returned1(CheckVersion(pm, World, o, orch.want.pkg, orch.want.arg))

DriverGetInstalledVersion ==
    /\ Wanted("GetInstalledVersion")
    /\ \E o \in Oracles :
         LET Returned1(r) ==
                 Ran(r.w, Answer3(IF r.err
                                  THEN Errorf("failed to get installed version", orch.want.pkg)
                                  ELSE Nil,
                                  FALSE, r.version))
         IN Returned1(GetInstalledVersion(pm, World, o, orch.want.pkg))

NextInstaller ==
    \/ \E packages \in PackageLists(LogicalNames), versions \in VersionedMaps,
          confirmed \in BOOLEAN : InstallPackages(packages, versions, confirmed)
    \/ \E packages \in PackageLists(DriverNames), versions \in VersionedMaps :
          \E order \in Orders(DOMAIN versions) : BatchInstall(packages, versions, order)
    \/ \E pkg \in LogicalNames, version \in Constraints \cup {<<>>}, confirmed \in BOOLEAN :
          OrchestratorInstallPackage(pkg, version, confirmed)
    \/ \E pkg \in DriverNames : CallInstallPackage(pkg)
    \/ \E pkg \in DriverNames, constraint \in Constraints : CallInstallVersion(pkg, constraint)
    \/ CallInstallVersionAgain
    \/ \E pkg \in DriverNames : CallUninstallPackage(pkg)
    \/ \E packages \in PackageLists(DriverNames) : CallInstallMultiple(packages)
    \/ DriverInstallPackage
    \/ DriverInstallVersion
    \/ DriverUninstallPackage
    \/ DriverCheckVersion
    \/ DriverGetInstalledVersion

SpecInstaller == InitInstaller /\ [][NextInstaller]_vars

----------------------------------------------------------------------------
(* The functions of package installer that work on their arguments and on  *)
(* the table of package names: DetectPackageManager, GetPackageName (above) *)
(* and AddPackageMapping.                                                   *)

\* executableName of the driver each constructor makes
ExecutableName(pmType) ==
    CASE pmType = TypeApt -> "apt"
      [] pmType = TypeDnf -> "dnf"
      [] pmType = TypeYum -> "yum"
      [] pmType = TypePacman -> "pacman"
      [] pmType = TypeSnap -> "snap"
      [] pmType = TypeHomebrew -> "brew"
      [] pmType = TypeChocolatey -> "choco"
      [] pmType = TypeScoop -> "scoop"
      [] pmType = TypeWinget -> "winget"

\* IsAvailable: exec.LookPath finds the executable in the directories of PATH
IsAvailable(pmType, path) == ExecutableName(pmType) \in path

\* DetectPackageManager's list as it would be with Winget put first on Windows.
Managers_WingetFirst(goos) ==
    IF goos = "windows" THEN <<TypeWinget, TypeChocolatey, TypeScoop>>
    ELSE IF goos = "darwin" THEN <<TypeHomebrew>>
    ELSE <<TypeApt, TypeDnf, TypeYum, TypePacman, TypeSnap>>

\* The drivers DetectPackageManager constructs for runtime.GOOS, in its order.
Managers(goos) ==
    IF goos = "windows" THEN <<TypeChocolatey, TypeScoop, TypeWinget>>
    ELSE IF goos = "darwin" THEN <<TypeHomebrew>>
    ELSE <<TypeApt, TypeDnf, TypeYum, TypePacman, TypeSnap>>

\* DetectPackageManager: [mgr |-> the type of the driver returned, err]
DetectPackageManager(goos, path) ==
    LET managers == Managers(goos)
        available == {i \in 1..Len(managers) : IsAvailable(managers[i], path)}
    IN IF available = {}
       THEN [mgr |-> "", err |-> Errorf("no supported package manager found", "")]
       ELSE [mgr |-> managers[CHOOSE i \in available : \A j \in available : i <= j],
             err |-> Nil]

\* AddPackageMapping as it would be if it put the new mapping in front.
AddPackageMapping_Prepends(mappings, mapping) ==
    IF mapping.Name = ""
    THEN [table |-> mappings, err |-> Errorf("package name cannot be empty", "")]
    ELSE IF Cardinality(DOMAIN mapping.Packages) = 0
    THEN [table |-> mappings,
          err |-> Errorf("at least one package manager mapping is required", "")]
    ELSE [table |-> <<mapping>> \o mappings, err |-> Nil]

\* AddPackageMapping: [table |-> packageMappings after the call, err]
AddPackageMapping(mappings, mapping) ==
    IF mapping.Name = ""
    THEN [table |-> mappings, err |-> Errorf("package name cannot be empty", "")]
    ELSE IF Cardinality(DOMAIN mapping.Packages) = 0
    THEN [table |-> mappings,
          err |-> Errorf("at least one package manager mapping is required", "")]
    ELSE [table |-> Append(mappings, mapping), err |-> Nil]

----------------------------------------------------------------------------
(* The arguments the functions are applied to.                             *)

OperatingSystems == {"windows", "darwin", "linux", "freebsd"}
Executables == {ExecutableName(t) : t \in ManagerTypes}
Paths == SUBSET Executables

VersionTexts ==
    {
      <<"1", ".", "2", ".", "3">>, <<"1", ".", "2", ".", "4">>,
      <<"1", ".", "3", ".", "0">>, <<"2", ".", "0", ".", "0">>,
      <<"1", ".", "1", "0", ".", "0">>, <<"1", "0", ".", "0", ".", "0">>,
      <<"1", ".", "2", ".", "3", "-", "a", "l", "p", "h", "a">>,
      <<"1", ".", "2", ".", "3", "-", "b", "e", "t", "a">>,
      <<"1", ".", "2", ".", "3", "+", "b", "1">>,
      <<"1", ".", "2", ".", "3", "+", "b", "2">>,
      <<"1", ".", "2", ".", "3", "-", "a", "l", "p", "h", "a", "+", "b", "1">>,
      <<"v", "1", ".", "2", ".", "3">>, <<"1", ".", "2">>, <<"1">>,
      <<"a", "b", "c">>, <<>> }

SubjectTexts ==
    {
      <<"1", ".", "2", ".", "3">>, <<"1", ".", "3", ".", "0">>,
      <<"2", ".", "0", ".", "0">>,
      <<"1", ".", "2", ".", "3", "-", "a", "l", "p", "h", "a">> }

ConstraintTexts ==
    {
      <<>>, <<"*">>, <<">", "=", "1", ".", "2", ".", "0">>,
      <<"<", "2", ".", "0", ".", "0">>, <<"=", "1", ".", "2", ".", "3">>,
      <<"!", "=", "1", ".", "2", ".", "3">>,
      <<">", "1", ".", "2", ".", "3">>,
      <<"<", "=", "1", ".", "2", ".", "3">>,
      <<">", "=", " ", "1", ".", "2", ".", "3">>,
      <<">", "=", "a", "b", "c">>, <<">", "=">>,
      <<"1", ".", "2", ".", "0", " ", "-", " ", "1", ".", "3", ".", "0">>,
      <<"1", ".", "0", ".", "0", " ", "-", " ", "1", ".", "2", ".", "2">>,
      <<"1", ".", "2", ".", "3", " ", "-", " ", "1", ".", "2", ".", "3">>,
      <<"a", " ", "-", " ", "b">>,
      <<"1", ".", "0", ".", "0", " ", "-", " ">>, <<"x">>, <<"X">>,
      <<"1", ".", "x">>, <<"1", ".", "2", ".", "x">>,
      <<"1", ".", "3", ".", "x">>, <<"1", ".", "2", ".", "X">>,
      <<"1", ".", "*">>, <<"1", ".", "*", ".", "3">>,
      <<"1", ".", "x", ".", "3">>, <<"1", ".", "2", ".", "3", "-", "*">>,
      <<"a", ".", "x">>, <<"l", "i", "n", "u", "x">>,
      <<"^", "1", ".", "2", ".", "3">>, <<"1", ".", "2", ".", "3", "x">>,
      <<"1", ".", "+", "x">>, <<"1", ".", "2", ".", "3">>,
      <<"v", "1", ".", "2", ".", "3">>, <<"1", ".", "2">>, <<"a", "b", "c">>,
      <<"1", ".", "2", ".", "3", ".", "4">> }

\* The names looked up, and the mappings a caller registers: a name of the
\* table again, the same in another case, new names, and mappings that
\* AddPackageMapping is to reject.
LookupNames == {"git", "Git", "nodejs", "curl", "wget"}

NewMappings ==
    { [Name |-> "git", Packages |-> [t \in {TypeApt} |-> "git-core"]],
      [Name |-> "Git", Packages |-> [t \in {TypeSnap} |-> "git-snap"]],
      [Name |-> "curl", Packages |-> [t \in {TypeApt, TypeSnap} |-> "curl"]],
      [Name |-> "wget", Packages |-> [t \in {TypeApt} |-> ""]],
      [Name |-> "", Packages |-> [t \in {TypeApt} |-> "anonymous"]],
      [Name |-> "curl", Packages |-> EmptyMap] }

FunctionCalls ==
    {[fn |-> "DetectPackageManager", arg |-> [goos |-> g, path |-> p],
      done |-> FALSE, out |-> <<>>] : g \in OperatingSystems, p \in Paths}
    \cup {[fn |-> "Compare", arg |-> [a |-> a, b |-> b],
           done |-> FALSE, out |-> <<>>] : a \in VersionTexts, b \in VersionTexts}
    \cup {[fn |-> "Satisfies", arg |-> [v |-> v, constraint |-> c],
           done |-> FALSE, out |-> <<>>] : v \in SubjectTexts, c \in ConstraintTexts}

----------------------------------------------------------------------------
(* A caller applies a function to arguments it was given.                  *)

InitFunctions ==
    /\ lib \in FunctionCalls
    /\ packageMappings = packageMappingsSeed
    /\ pm = TypeApt
    /\ repo = {}
    /\ host = EmptyMap
    /\ cmds = <<>>
    /\ calls = <<>>
    /\ orch = NoOperation
    /\ journal = NoFile
    /\ now = 1
    /\ driver = <<>>
    /\ Fresh(NoFile)

Applies(fn) == lib.fn = fn /\ ~lib.done

Applied(out) ==
    /\ lib' = [lib EXCEPT !.done = TRUE, !.out = out]
    /\ UNCHANGED <<packageMappings, pm, repo, host, cmds, calls, orch>>
    /\ UNCHANGED tvars

CallDetectPackageManager ==
    /\ Applies("DetectPackageManager")
    /\ Applied(DetectPackageManager(lib.arg.goos, lib.arg.path))

\* Parse of both texts, then a.Compare(b)
CallCompare ==
    /\ Applies("Compare")
    /\ LET Compared(a, b) ==
               IF a.ok /\ b.ok THEN [ok |-> TRUE, cmp |-> Compare(a, b)]
               ELSE [ok |-> FALSE, cmp |-> 0]
       IN Applied(Compared(Parse(lib.arg.a), Parse(lib.arg.b)))

\* Parse of the version text, then v.Satisfies(constraint)
CallSatisfies ==
    /\ Applies("Satisfies")
    /\ LET Checked(v) == Applied(Satisfies(v, lib.arg.constraint))
       IN Checked(Parse(lib.arg.v))

NextFunctions ==
    \/ CallDetectPackageManager
    \/ CallCompare
    \/ CallSatisfies

SpecFunctions == InitFunctions /\ [][NextFunctions]_vars

----------------------------------------------------------------------------
(* A process registers mappings and looks names up in the table.           *)

InitRegistry ==
    /\ lib = NoLibCall
    /\ packageMappings = packageMappingsSeed
    /\ pm = TypeApt
    /\ repo = {}
    /\ host = EmptyMap
    /\ cmds = <<>>
    /\ calls = <<>>
    /\ orch = NoOperation
    /\ journal = NoFile
    /\ now = 1
    /\ driver = <<>>
    /\ Fresh(NoFile)

CallAddPackageMapping(mapping) ==
    /\ Len(packageMappings) < Len(packageMappingsSeed) + MaxAdded
    /\ LET Returned2(r) ==
               /\ packageMappings' = r.table
               /\ lib' = [fn |-> "AddPackageMapping", arg |-> mapping,
                          done |-> TRUE, out |-> r.err]
       IN Returned2(AddPackageMapping(packageMappings, mapping))
    /\ UNCHANGED <<pm, repo, host, cmds, calls, orch>>
    /\ UNCHANGED tvars

CallGetPackageName(pkg, pmType) ==
    /\ lib' = [fn |-> "GetPackageName", arg |-> [pkg |-> pkg, pmType |-> pmType],
               done |-> TRUE, out |-> GetPackageName(packageMappings, pkg, pmType)]
    /\ UNCHANGED <<packageMappings, pm, repo, host, cmds, calls, orch>>
    /\ UNCHANGED tvars

NextRegistry ==
    \/ \E mapping \in NewMappings : CallAddPackageMapping(mapping)
    \/ \E pkg \in LookupNames, pmType \in ManagerTypes : CallGetPackageName(pkg, pmType)

SpecRegistry == InitRegistry /\ [][NextRegistry]_vars

----------------------------------------------------------------------------
(* Definitions the properties share.                                        *)

\* A record as a value: its scalar fields and the contents of its maps.
GoMap(a, h) == [nil |-> a = 0, entries |-> IF a = 0 THEN EmptyMap ELSE h[a]]

View(r, h) ==
    [ID |-> r.ID, Timestamp |-> r.Timestamp, Environment |-> r.Environment,
     Status |-> r.Status, Packages |-> GoMap(r.Packages, h),
     Metadata |-> GoMap(r.Metadata, h)]

LiveView == [id \in DOMAIN installations |-> View(installations[id], heap)]

MutatingOps == {"StartInstallation", "AddPackage", "CompleteInstallation",
                "FailInstallation", "Rollback"}

\* Goroutine p waits in save for the mutex that its own method holds: nothing
\* but p's return would unlock it.
SelfDeadlocked(p) == pc[p] = "save_Lock" /\ mu = p

\* p's call was given the id of a record of the tracker.
OnExistingRecord(p) ==
    call[p].op # "none" /\ result[p] # "not_found" /\ call[p].id \in DOMAIN installations

Persisted(id) ==
    /\ journal.exists /\ journal.valid
    /\ id \in DOMAIN journal.content
    /\ id \in DOMAIN installations
    /\ journal.content[id] = EncodeRecord(installations[id], heap)

----------------------------------------------------------------------------
(* C1.  StartInstallation adds a record with status in_progress and has    *)
(* written the journal when it returns it; when the journal write fails it *)
(* returns an error and the new record is not in the map.  As a state      *)
(* property: a StartInstallation call is never left unable to return, a    *)
(* returned record is in the map and in the journal, and after a failed    *)
(* write the record is gone.                                               *)
C1_StartInstallationPersistsOrDiscards ==
    \A p \in Procs :
        call[p].op = "StartInstallation" =>
            /\ ~SelfDeadlocked(p)
            /\ (pc[p] = "done" /\ result[p] = "ok") =>
                   /\ call[p].id \in DOMAIN installations
                   /\ installations[call[p].id].Status = StatusInProgress
                   /\ Persisted(call[p].id)
            /\ (pc[p] = "done" /\ result[p] = "save_failed") =>
                   call[p].id \notin DOMAIN installations

(* C2.  After Rollback returns for an existing record the status is        *)
(* rolled_back when every uninstall succeeded and rollback_failed when one *)
(* failed, with the aggregated error in the metadata; also for a record    *)
(* loaded from the journal.  As a state property: a Rollback of an         *)
(* existing record is never left unable to return, and once it has run its *)
(* uninstall loop and returned, status and metadata are as stated.         *)
C2_RollbackFinalStatus ==
    \A p \in Procs :
        (call[p].op = "Rollback" /\ OnExistingRecord(p)) =>
            /\ ~SelfDeadlocked(p)
            /\ (pc[p] = "done" /\ result[p] \in {"ok", "rollback_error", "panic"}) =>
                   LET r == installations[call[p].id] IN
                   IF frame[p].failed = <<>>
                   THEN r.Status = StatusRolledBack
                   ELSE /\ r.Status = StatusRollbackFailed
                        /\ r.Metadata # 0
                        /\ "rollback_error" \in DOMAIN heap[r.Metadata]
                        /\ heap[r.Metadata]["rollback_error"] = frame[p].failed

UninstallCalls(p, n) == {i \in 1..Len(driver) : driver[i].by = p /\ driver[i].name = n}

(* C3.  Rollback calls UninstallPackage exactly once for every package of  *)
(* the record, going on after a failure; it returns an error exactly when  *)
(* an uninstall failed, and the error names the packages that failed and   *)
(* no other.  As a state property of a Rollback of an existing record: it  *)
(* is never left unable to return, and when it has returned after a        *)
(* successful save the driver was called once per package and the error    *)
(* lists exactly the failures.                                             *)
C3_RollbackUninstallsEveryPackageOnce ==
    \A p \in Procs :
        (call[p].op = "Rollback" /\ OnExistingRecord(p)) =>
            /\ ~SelfDeadlocked(p)
            /\ (pc[p] = "done" /\ result[p] \in {"ok", "rollback_error"}) =>
                   LET pkgs == GoMap(installations[call[p].id].Packages, heap).entries IN
                   /\ \A n \in DOMAIN pkgs : Cardinality(UninstallCalls(p, pkgs[n].Name)) = 1
                   /\ (result[p] = "rollback_error") <=> (frame[p].failed # <<>>)
                   /\ {frame[p].failed[i] : i \in 1..Len(frame[p].failed)} =
                          {driver[i].name : i \in {k \in 1..Len(driver) :
                                                     driver[k].by = p /\ ~driver[k].ok}}

InMethod(p) == pc[p] \notin {"idle", "done"} /\ call[p].op \in MutatingOps

(* C4.  Every public mutating method holds t.mu from its first access to   *)
(* the map until its last persist has finished, so no other tracker        *)
(* operation runs in between.  As a state property: a goroutine inside a   *)
(* mutating method holds the mutex, and its persist is able to run under   *)
(* it (save is not waiting for that same mutex).                           *)
C4_LockHeldThroughPersist ==
    \A p \in Procs :
        InMethod(p) => (mu = p /\ pc[p] # "save_Lock")

(* C5.  Whenever a mutating operation has returned without error and no    *)
(* mutating operation is in progress, the journal is the serialisation of  *)
(* the in-memory map.  As a state property: a mutating operation is never  *)
(* left unable to return, and in the states described the file content     *)
(* equals Encode of the map.                                               *)
C5_JournalMirrorsMemory ==
    /\ \A p \in Procs : call[p].op \in MutatingOps => ~SelfDeadlocked(p)
    /\ ( /\ \E p \in Procs : call[p].op \in MutatingOps /\ pc[p] = "done" /\ result[p] = "ok"
         /\ \A p \in Procs : ~InMethod(p) )
       => journal = File(Encode(installations, heap))

Reloaded == NewInstallationTracker(File(Encode(installations, heap)))

(* C6.  Journal round trip: a tracker constructed on the journal that save *)
(* writes for the current map has, for every id, a record with the same    *)
(* id, timestamp, packages, environment, metadata and status, a record     *)
(* with an empty metadata map included.                                    *)
C6_JournalRoundTrip ==
    \A id \in DOMAIN installations :
        /\ id \in DOMAIN Reloaded.installations
        /\ View(Reloaded.installations[id], Reloaded.heap) = View(installations[id], heap)

CallerStep ==
    \E p \in Procs :
        \/ CallerSetStatus(p, StatusCompleted)
        \/ CallerPutPackage(p, CallerPackage)
        \/ CallerDeletePackage(p, CallerPackage.Name)
        \/ CallerPutMetadata(p, "note", "x")

TrackerMutation ==
    \E p \in Procs :
        /\ pc[p] = "idle"
        /\ pc'[p] # "idle"
        /\ call'[p].op \in MutatingOps

(* C7.  The record GetInstallation returns is a defensive copy: no change  *)
(* a caller makes to it (status, package map, metadata map) shows in the   *)
(* tracker's live records, and no tracker mutation changes a copy that was *)
(* returned before.                                                        *)
C7_GetInstallationDefensiveCopy ==
    [][ /\ (CallerStep /\ ~held.live) => (LiveView' = LiveView)
        /\ (TrackerMutation /\ held.has /\ ~held.live) =>
               (View(held.rec, heap') = View(held.rec, heap)) ]_vars

(* C8.  For every record of the tracker, created in this process or loaded *)
(* from the journal, CompleteInstallation sets the status completed and    *)
(* persists, FailInstallation sets the status failed, stores the reason in *)
(* the metadata and persists, and both return without error when the       *)
(* journal write succeeds.  As a state property of a finished call on an   *)
(* existing record: it ended by returning (not by a panic), and when it    *)
(* returned no error the record has the status (and reason) and is in the  *)
(* journal.                                                                *)
C8_CompleteAndFailPersist ==
    \A p \in Procs :
        ( /\ call[p].op \in {"CompleteInstallation", "FailInstallation"}
          /\ OnExistingRecord(p)
          /\ pc[p] = "done" ) =>
            /\ result[p] \in {"ok", "save_failed"}
            /\ result[p] = "ok" =>
                   LET r == installations[call[p].id] IN
                   /\ Persisted(call[p].id)
                   /\ call[p].op = "CompleteInstallation" => r.Status = StatusCompleted
                   /\ call[p].op = "FailInstallation" =>
                          /\ r.Status = StatusFailed
                          /\ "failure_reason" \in DOMAIN GoMap(r.Metadata, heap).entries

ByIdOps == {"AddPackage", "CompleteInstallation", "FailInstallation", "Rollback"}

(* C9.  AddPackage, CompleteInstallation, FailInstallation and Rollback    *)
(* called with an id that is not in the tracker return record-not-found    *)
(* and change nothing: no record is created or modified, the journal is    *)
(* not rewritten, the mutex is unlocked again and the driver gets no call. *)
C9_NotFoundChangesNothing ==
    [][ \A p \in Procs :
          ( /\ pc[p] = "idle"
            /\ pc'[p] # "idle"
            /\ call'[p].op \in ByIdOps
            /\ call'[p].id \notin DOMAIN installations )
          => /\ pc'[p] = "done"
             /\ result'[p] = "not_found"
             /\ installations' = installations
             /\ heap' = heap
             /\ journal' = journal
             /\ mu' = NoOne
             /\ driver' = driver ]_vars

C9_Witness ==
    \E p \in Procs, q \in Procs :
        /\ installations # EmptyMap
        /\ pc[p] = "done" /\ call[p].op = "Rollback" /\ result[p] = "not_found"
        /\ pc[q] = "done" /\ call[q].op = "AddPackage" /\ result[q] = "not_found"
        /\ mu = NoOne

(* C10.  Record ids are unique: StartInstallation gives its record an id   *)
(* that no record of the tracker has, so it overwrites and removes none    *)
(* and the map grows by one record.                                        *)
C10_StartInstallationIdIsFresh ==
    [][ \A p \in Procs :
          (pc[p] = "idle" /\ pc'[p] # "idle" /\ call'[p].op = "StartInstallation")
          => /\ call'[p].id \notin DOMAIN installations
             /\ \A id \in DOMAIN installations :
                    id \in DOMAIN installations' /\ installations'[id] = installations[id]
             /\ Cardinality(DOMAIN installations') = Cardinality(DOMAIN installations) + 1 ]_vars

----------------------------------------------------------------------------
(* Properties of the installer.                                            *)

Finished(op) == orch.state = "done" /\ orch.op = op

\* The operation got past its argument check and its confirmation prompt.
Proceeded ==
    orch.result.msg \notin {"no packages to install", "installation cancelled by user"}

IsInstallCall(c) == c.api \in {"InstallPackage", "InstallVersion"}
IsInstallPackageCall(c) == c.api = "InstallPackage"
InstallCommands == {"install", "install --classic", "install pkg=version", "install version"}
IsInstallCommand(c) == c.cmd \in InstallCommands
IsProbe(c) == c.cmd = "probe"

\* The driver's install calls and the install subprocesses so far.
installs == SelectSeq(calls, IsInstallCall)
installed == SelectSeq(cmds, IsInstallCommand)

\* The name installWithMapping uses first for pkg.
MappedName(pkg) ==
    LET Name(mapped) == IF mapped.name = "" THEN pkg ELSE mapped.name
    IN Name(GetPackageName(packageMappings, pkg, pm))

(* C11.  The orchestrator's InstallPackage installs its package under the  *)
(* mapped name; it calls the driver's install a second time exactly when   *)
(* the first call returned NotFound and the mapped name differs from the   *)
(* original; the second call is made with the original name and its result *)
(* is the result returned; otherwise the result of the first call is the   *)
(* result returned.  There are at most two install calls.                  *)
C11_RetryOnceWithOriginalName ==
    (Finished("InstallPackage") /\ Proceeded) =>
        /\ Len(installs) <= 2
        /\ Len(installs) >= 1 => installs[1].pkg = MappedName(orch.pkg)
        /\ Len(installs) = 2 <=>
               /\ Len(installs) >= 1
               /\ installs[1].err.type = "NotFound"
               /\ MappedName(orch.pkg) # orch.pkg
        /\ Len(installs) = 2 =>
               /\ installs[2].pkg = orch.pkg
               /\ installs[2].api = installs[1].api
               /\ orch.result = installs[2].err
        /\ Len(installs) = 1 => orch.result = installs[1].err

\* The retry happened and installed the package under its original name.
C11_Witness ==
    /\ Finished("InstallPackage")
    /\ Len(installs) = 2
    /\ installs[1].err.type = "NotFound"
    /\ installs[2].pkg = orch.pkg
    /\ installs[2].err = Nil
    /\ orch.result = Nil
    /\ orch.pkg \in DOMAIN host

\* The install calls made for a package of a batch, by their positions
\* among the install calls.
Attempts(name) == {k \in 1..Len(installs) : installs[k].pkg \in {name, MappedName(name)}}

\* The orchestrator found no name for the package and recorded that.
MappingFailed(name) ==
    \E k \in 1..Len(orch.failed) :
        orch.failed[k].pkg = name /\ orch.failed[k].err.msg = "package mapping error"

(* C12.  Batch installs are best-effort.  When InstallPackages or          *)
(* BatchInstall has returned, every package of its list was attempted, in  *)
(* the order of the list, whatever happened to the packages before it, and *)
(* so was every versioned package of BatchInstall; the packages whose      *)
(* install succeeded are installed; and InstallPackages returns an error   *)
(* exactly when it recorded a failure, its list of failures naming the     *)
(* packages whose install returned an error and no other.                  *)
C12_BatchesAreBestEffort ==
    ( /\ orch.state = "done"
      /\ orch.op \in {"InstallPackages", "BatchInstall"}
      /\ Proceeded ) =>
        /\ \A a \in 1..Len(orch.packages) :
               Attempts(orch.packages[a]) # {} \/ MappingFailed(orch.packages[a])
        /\ \A a, b \in 1..Len(orch.packages) :
               a < b => \A x \in Attempts(orch.packages[a]), y \in Attempts(orch.packages[b]) :
                            x < y
        /\ orch.op = "BatchInstall" =>
               \A name \in DOMAIN orch.versions :
                   \E k \in 1..Len(installs) :
                       installs[k].api = "InstallVersion" /\ installs[k].pkg = name
        /\ \A k \in 1..Len(installs) : installs[k].err = Nil => installs[k].pkg \in DOMAIN host
        /\ orch.op = "InstallPackages" =>
              /\ orch.result # Nil <=> orch.failed # <<>>
              /\ \A k \in 1..Len(orch.failed) : orch.failed[k].err # Nil

(* C13.  InstallPackages attempts every package it is given: when it has   *)
(* returned, the driver was called for each entry of the versioned map     *)
(* with the constraint of that entry.                                      *)
C13_VersionedPackagesAreAttempted ==
    (Finished("InstallPackages") /\ Proceeded) =>
        \A name \in DOMAIN orch.versions :
            \E k \in 1..Len(calls) :
                /\ calls[k].api \in {"CheckVersion", "InstallVersion"}
                /\ calls[k].pkg = MappedName(name)
                /\ calls[k].arg = orch.versions[name]

(* C14.  An already-installed package is a soft success: when              *)
(* InstallPackages has returned, no package whose install returned         *)
(* AlreadyInstalled is among its failures, and it returns no error when    *)
(* every install call returned nil or AlreadyInstalled.                    *)
C14_AlreadyInstalledIsSoftSuccess ==
    (Finished("InstallPackages") /\ Proceeded) =>
        /\ \A k \in 1..Len(orch.failed) : orch.failed[k].err.type # "AlreadyInstalled"
        /\ ( /\ Len(installs) = Len(orch.packages)
             /\ \A k \in 1..Len(installs) :
                    installs[k].err.type \in {"nil", "AlreadyInstalled"} )
           => orch.result = Nil

\* The probe of InstallPackage told the driver that the package is installed.
ProbeSaidInstalled == \E k \in 1..Len(cmds) : IsProbe(cmds[k]) /\ cmds[k].ok

\* What holds of a returned InstallPackage whatever the reading of the state
\* machine: the probe is the first subprocess, an install command follows
\* only a probe that did not report the package installed, and the result
\* is AlreadyInstalled exactly when the probe reported it installed.
ProbeThenInstall ==
    /\ cmds # <<>>
    /\ IsProbe(cmds[1])
    /\ ProbeSaidInstalled => installed = <<>>
    /\ ProbeSaidInstalled <=> orch.result = PackageAlreadyInstalledError(orch.packages[1])
    /\ installed # <<>> => (orch.result = Nil <=> installed[Len(installed)].ok)

(* C15.  InstallPackage of every driver follows requested ->               *)
(* checking-installed -> {already-installed | installing -> {installed |   *)
(* failed}}: the probe runs first, a probe that reports the package        *)
(* installed ends the call with AlreadyInstalled and without an install    *)
(* command, and every other call goes on to the install command, whose     *)
(* outcome is the result.                                                   *)
C15_InstallPackageStateMachine ==
    Finished("driver.InstallPackage") =>
        /\ ProbeThenInstall
        /\ ~ProbeSaidInstalled => installed # <<>>

(* C15, amended.  As above, with one more way out of checking-installed:   *)
(* the probe of Homebrew, Chocolatey and Scoop can itself fail, and then   *)
(* the call returns that error without an install command.                 *)
C15_InstallPackageStateMachineWithProbeFailure ==
    Finished("driver.InstallPackage") =>
        /\ ProbeThenInstall
        /\ ~ProbeSaidInstalled =>
               \/ installed # <<>>
               \/ /\ pm \in {TypeHomebrew, TypeChocolatey, TypeScoop}
                  /\ orch.result.msg = "failed to check if package is installed"

\* Both ways out of checking-installed: here the package was installed
\* already and no install command ran.
C15_Witness ==
    /\ Finished("driver.InstallPackage")
    /\ ProbeSaidInstalled
    /\ installed = <<>>
    /\ orch.result.type = "AlreadyInstalled"

(* C16.  InstallVersion of every driver first checks the installed version *)
(* and returns success without an install command when it satisfies the   *)
(* constraint; two calls in a row with the same arguments issue at most    *)
(* one install command.                                                    *)
C16_InstallVersionIsIdempotent ==
    (orch.state = "done" /\ orch.op \in {"driver.InstallVersion", "driver.InstallVersion twice"}) =>
        /\ orch.result.type # "panic"
        /\ calls # <<>>
        /\ calls[1].api = "CheckVersion"
        /\ (orch.op = "driver.InstallVersion" /\ calls[1].sat) =>
               installed = <<>> /\ orch.result = Nil
        /\ Len(installed) <= 1

\* The versions of the manager's list that satisfy a constraint, by position.
Satisfying(constraint) ==
    {k \in 1..Len(AvailableVersions) :
        LET Holds(v) == v.ok /\ Satisfies(v, constraint).ok
        IN Holds(Parse(AvailableVersions[k]))}

(* C17.  The version InstallVersion hands to the install command is the    *)
(* first version of the manager's list that satisfies the constraint:      *)
(* never a version that fails the constraint, and never the constraint     *)
(* expression itself.                                                      *)
C17_InstallVersionPinsSelectedVersion ==
    Finished("driver.InstallVersion") =>
        \A k \in 1..Len(installed) :
            \E n \in Satisfying(orch.versions[orch.packages[1]]) :
                /\ installed[k].ver = AvailableVersions[n]
                /\ \A m \in Satisfying(orch.versions[orch.packages[1]]) : n <= m

(* C18.  UninstallPackage on a package that is not installed is a no-op:   *)
(* it runs no uninstall or remove subprocess, leaves the host as it is and *)
(* returns no error (but for the error of a probe that could not run).     *)
C18_UninstallAbsentIsNoOp ==
    [][ ( /\ orch.op = "driver.UninstallPackage"
          /\ orch.state = "running"
          /\ orch'.state = "done"
          /\ orch.packages[1] \notin DOMAIN host )
        => /\ \/ orch'.result = Nil
              \/ orch'.result.msg = "failed to check if package is installed"
           /\ \A k \in 1..Len(cmds') : cmds'[k].cmd \notin {"uninstall", "remove"}
           /\ host' = host ]_vars

\* The InstallPackage calls of InstallMultiple.
packageInstalls == SelectSeq(calls, IsInstallPackageCall)

(* C19.  Winget's InstallMultiple calls InstallPackage for the packages    *)
(* one at a time in list order, goes on after nil and after                *)
(* AlreadyInstalled, stops at any other error, and returns success exactly *)
(* when every package was installed or already installed.                  *)
C19_InstallMultipleIsSequential ==
    Finished("driver.InstallMultiple") =>
        /\ Len(packageInstalls) <= Len(orch.packages)
        /\ \A k \in 1..Len(packageInstalls) : packageInstalls[k].pkg = orch.packages[k]
        /\ \A k \in 1..(Len(packageInstalls) - 1) :
               packageInstalls[k].err.type \in {"nil", "AlreadyInstalled"}
        /\ orch.result = Nil <=>
               /\ Len(packageInstalls) = Len(orch.packages)
               /\ \A k \in 1..Len(packageInstalls) :
                      packageInstalls[k].err.type \in {"nil", "AlreadyInstalled"}

\* A package that was installed already, then one that got installed.
C19_Witness ==
    /\ Finished("driver.InstallMultiple")
    /\ Len(packageInstalls) = 2
    /\ packageInstalls[1].err.type = "AlreadyInstalled"
    /\ packageInstalls[2].err = Nil
    /\ orch.result = Nil

(* C20.  No driver retries a failed subprocess: one InstallPackage call    *)
(* runs at most one install command.  Snap alone runs a second one, the    *)
(* plain install, exactly when its --classic install has failed, and then  *)
(* fails only when both have failed.                                       *)
C20_NoRetryButSnapFallback ==
    Finished("driver.InstallPackage") =>
        IF pm # TypeSnap THEN Len(installed) <= 1
        ELSE /\ Len(installed) <= 2
             /\ Len(installed) >= 1 => installed[1].cmd = "install --classic"
             /\ Len(installed) = 2 <=> (Len(installed) >= 1 /\ ~installed[1].ok)
             /\ Len(installed) = 2 => installed[2].cmd = "install"
             /\ orch.result.msg = "failed to install package" <=>
                    (Len(installed) = 2 /\ ~installed[1].ok /\ ~installed[2].ok)

\* Snap fell back to the plain install, which worked.
C20_Witness ==
    /\ Finished("driver.InstallPackage")
    /\ pm = TypeSnap
    /\ Len(installed) = 2
    /\ ~installed[1].ok
    /\ installed[2].ok
    /\ orch.result = Nil

(* C26.  Every call of StartInstallation, AddPackage, CompleteInstallation, *)
(* FailInstallation and Rollback returns in the end: a goroutine that has  *)
(* come to the persist of its method, holding the lock of the tracker,     *)
(* gets through it (unless the process is ended first).                    *)
C26_TrackerCallsReturn ==
    \A p \in Procs :
        (pc[p] = "save_Lock" /\ call[p].op \in MutatingOps) ~> (pc[p] \in {"done", "idle"})

\* The methods that change a record the tracker has.
RecordOps == {"AddPackage", "CompleteInstallation", "FailInstallation", "Rollback"}

\* p's method has changed its record and no write of the journal follows:
\* the write failed, or the method never gets to it.
NotWritten(p) ==
    \/ pc[p] = "done" /\ result[p] = "save_failed"
    \/ SelfDeadlocked(p)

(* C27.  State is unchanged when the persist of AddPackage,                *)
(* CompleteInstallation, FailInstallation or Rollback does not succeed:    *)
(* the record in memory is then the record of the journal last written.    *)
C27_PersistErrorLeavesStateUnchanged ==
    \A p \in Procs :
        (call[p].op \in RecordOps /\ OnExistingRecord(p) /\ NotWritten(p)) =>
            Persisted(call[p].id)

RollbackStatuses == {StatusRollingBack, StatusRolledBack, StatusRollbackFailed}

\* Goroutine p enters the method op in this step, on a record of the tracker.
Enters(p, op) ==
    /\ pc[p] = "idle"
    /\ pc'[p] # "idle"
    /\ call'[p].op = op
    /\ call'[p].id \in DOMAIN installations

NoNameFor(name) == GetPackageName(packageMappings, name, pm).err

(* C29.  When the mapping of a name fails for the type of the driver, the  *)
(* orchestrator's InstallPackage returns the mapping error and calls no    *)
(* operation of the driver; InstallPackages records the mapping error for  *)
(* that package, calls no operation of the driver and runs no subprocess   *)
(* for it, and still attempts the other packages of the list.              *)
C29_MappingErrorSkipsTheDriver ==
    ( /\ orch.state = "done"
      /\ orch.op \in {"InstallPackage", "InstallPackages"}
      /\ Proceeded ) =>
        \A a \in 1..Len(orch.packages) :
            IF NoNameFor(orch.packages[a])
            THEN /\ \A k \in 1..Len(calls) : calls[k].pkg # orch.packages[a]
                 /\ \A k \in 1..Len(cmds) : cmds[k].pkg # orch.packages[a]
                 /\ orch.op = "InstallPackage" =>
                        orch.result = Errorf("package mapping error", orch.packages[a])
                 /\ orch.op = "InstallPackages" =>
                        MappingFailed(orch.packages[a]) /\ orch.result # Nil
            ELSE orch.op = "InstallPackages" => Attempts(orch.packages[a]) # {}

\* On Snap: nodejs has no name, curl is installed all the same.
C29_Witness ==
    /\ Finished("InstallPackages")
    /\ pm = TypeSnap
    /\ orch.packages = <<"nodejs", "curl">>
    /\ MappingFailed("nodejs")
    /\ Attempts("curl") # {}
    /\ "curl" \in DOMAIN host

----------------------------------------------------------------------------
(* Properties of the functions of package installer.                       *)

\* The order of preference by operating system.
PreferenceOrder(goos) ==
    IF goos = "windows" THEN <<"chocolatey", "scoop", "winget">>
    ELSE IF goos = "darwin" THEN <<"homebrew">>
    ELSE <<"apt", "dnf", "yum", "pacman", "snap">>

(* C21.  DetectPackageManager returns the first driver of the preference   *)
(* order of the operating system that is available: the driver returned is *)
(* available and every driver before it in the order is not, and the call  *)
(* fails with 'no supported package manager found' exactly when no driver  *)
(* of the order is available.                                              *)
C21_DetectReturnsFirstAvailable ==
    (lib.fn = "DetectPackageManager" /\ lib.done) =>
        LET order == PreferenceOrder(lib.arg.goos)
            Available(i) == IsAvailable(order[i], lib.arg.path)
        IN /\ lib.out.err = Nil =>
                \E i \in 1..Len(order) :
                    /\ lib.out.mgr = order[i]
                    /\ Available(i)
                    /\ \A j \in 1..(i - 1) : ~Available(j)
           /\ lib.out.err # Nil <=> \A i \in 1..Len(order) : ~Available(i)
           /\ lib.out.err # Nil =>
                lib.out.err.msg = "no supported package manager found"

\* On Windows without Chocolatey, with Scoop and Winget: Scoop is returned.
C21_Witness ==
    /\ lib.fn = "DetectPackageManager" /\ lib.done
    /\ lib.arg.goos = "windows"
    /\ lib.arg.path = {"scoop", "winget"}
    /\ lib.out.mgr = TypeScoop

\* The entries of the table whose name is the name looked up, but for case.
Matching(table, pkg) == {i \in 1..Len(table) : EqualFold(table[i].Name, pkg)}

(* C22.  GetPackageName has three outcomes.  No entry matches the name     *)
(* case-insensitively: the original name, no error.  An entry matches and  *)
(* has a name for the manager: that name, no error.  An entry matches and  *)
(* has no name for the manager: an error, with neither the original name   *)
(* nor any other name.                                                     *)
C22_GetPackageNameOutcomes ==
    lib.fn = "GetPackageName" =>
        LET hits == Matching(packageMappings, lib.arg.pkg)
            Named(i) == lib.arg.pmType \in DOMAIN packageMappings[i].Packages
        IN /\ hits = {} => lib.out = [name |-> lib.arg.pkg, err |-> FALSE]
           /\ hits # {} =>
                \E i \in hits :
                    IF Named(i)
                    THEN lib.out = [name |-> packageMappings[i].Packages[lib.arg.pmType],
                                    err |-> FALSE]
                    ELSE lib.out = [name |-> "", err |-> TRUE]

\* A name of the table looked up for Snap, for which no entry has a name.
C22_Witness ==
    /\ lib.fn = "GetPackageName"
    /\ lib.arg.pkg = "Git"
    /\ lib.arg.pmType = TypeSnap
    /\ packageMappings = packageMappingsSeed
    /\ lib.out.err

\* A step in which AddPackageMapping has run.
Registers ==
    /\ lib'.fn = "AddPackageMapping"
    /\ lib' # lib \/ packageMappings' # packageMappings

(* C23.  AddPackageMapping validates and appends.  A mapping with an empty *)
(* name or without an entry for any manager is rejected with an error and  *)
(* the table stays as it is; an accepted mapping becomes the last entry;   *)
(* and no step removes, replaces or reorders an entry of the table.        *)
C23_AddPackageMappingAppends ==
    [][ /\ Len(packageMappings') >= Len(packageMappings)
        /\ SubSeq(packageMappings', 1, Len(packageMappings)) = packageMappings
        /\ Registers =>
             IF lib'.arg.Name = "" \/ DOMAIN lib'.arg.Packages = {}
             THEN lib'.out # Nil /\ packageMappings' = packageMappings
             ELSE lib'.out = Nil /\ packageMappings' = Append(packageMappings, lib'.arg)
      ]_vars

\* Two mappings were accepted, the second after the first, after the seed.
C23_Witness ==
    /\ lib.fn = "AddPackageMapping"
    /\ lib.out = Nil
    /\ Len(packageMappings) = Len(packageMappingsSeed) + 2
    /\ packageMappings[Len(packageMappings)] = lib.arg
    /\ packageMappings[Len(packageMappings) - 1] # lib.arg

----------------------------------------------------------------------------
(* Properties of package version.                                          *)

\* The order of versions: by the numbers, then a version without a tag
\* above one with a tag, then by the tags as strings.
Ordered(a, b) ==
    LET Less(x, y) == \/ x[1] < y[1]
                      \/ x[1] = y[1] /\ x[2] < y[2]
                      \/ x[1] = y[1] /\ x[2] = y[2] /\ x[3] < y[3]
        By(x, y) ==
            IF x # y THEN (IF Less(x, y) THEN -1 ELSE 1)
            ELSE IF a.PreRelease = <<>> /\ b.PreRelease # <<>> THEN 1
            ELSE IF a.PreRelease # <<>> /\ b.PreRelease = <<>> THEN -1
            ELSE IF a.PreRelease = b.PreRelease THEN 0
            ELSE IF StringLess(a.PreRelease, b.PreRelease) THEN -1 ELSE 1
    IN By(<<a.Major, a.Minor, a.Patch>>, <<b.Major, b.Minor, b.Patch>>)

(* C24.  For parsed versions a and b, Compare(a, b) = -Compare(b, a) and   *)
(* Compare(a, a) = 0; the order is by major, minor and patch, then a       *)
(* version without a pre-release tag is above one with a tag, then the     *)
(* tags compare as strings; versions that differ in build metadata only    *)
(* compare as 0.                                                           *)
C24_CompareIsAntisymmetric ==
    (lib.fn = "Compare" /\ lib.done /\ lib.out.ok) =>
        LET Holds(a, b) ==
                /\ lib.out.cmp = 0 - Compare(b, a)
                /\ Compare(a, a) = 0
                /\ Compare(b, b) = 0
                /\ lib.out.cmp = Ordered(a, b)
                /\ [a EXCEPT !.Build = <<>>] = [b EXCEPT !.Build = <<>>] => lib.out.cmp = 0
        IN Holds(Parse(lib.arg.a), Parse(lib.arg.b))

\* Two versions with pre-release tags, and two that differ in build only.
C24_Witness ==
    /\ lib.fn = "Compare" /\ lib.done /\ lib.out.ok
    /\ \/ /\ lib.arg.a = <<"1", ".", "2", ".", "3", "-", "b", "e", "t", "a">>
          /\ lib.arg.b = <<"1", ".", "2", ".", "3", "-", "a", "l", "p", "h", "a">>
          /\ lib.out.cmp = 1
       \/ /\ lib.arg.a = <<"1", ".", "2", ".", "3", "+", "b", "1">>
          /\ lib.arg.b = <<"1", ".", "2", ".", "3", "+", "b", "2">>
          /\ lib.out.cmp = 0

\* The parts of a text between its dots.
RECURSIVE Components(_)
Components(c) ==
    IF Index(c, <<".">>) = 0 THEN <<c>>
    ELSE <<SubSeq(c, 1, Index(c, <<".">>) - 1)>> \o Components(Drop(c, Index(c, <<".">>)))

\* A wildcard pattern: x, X or * in the place of a number of a version of
\* one to three numbers, or a version followed by -*.
ValidWildcard(c) ==
    \/ /\ HasSuffix(c, <<"-", "*">>)
       /\ Parse(TrimSuffix(c, <<"-", "*">>)).ok
    \/ LET parts == Components(c) IN
       /\ Len(parts) \in 1..3
       /\ \A i \in 1..Len(parts) :
              \/ parts[i] \in {<<"x">>, <<"X">>, <<"*">>}
              \/ parts[i] # <<>> /\ \A k \in 1..Len(parts[i]) : IsDigit(parts[i][k])
       /\ \E i \in 1..Len(parts) : parts[i] \in {<<"x">>, <<"X">>, <<"*">>}

\* The constraints that are well formed: the empty one, *, an operator
\* before a version, a range of two versions, a wildcard pattern, a version.
WellFormed(c) ==
    \/ c = <<>>
    \/ c = <<"*">>
    \/ \E i \in 1..Len(Operators) :
          HasPrefix(c, Operators[i]) /\ Parse(TrimSpace(Drop(c, Len(Operators[i])))).ok
    \/ /\ Contains(c, <<" ", "-", " ">>)
       /\ Parse(TrimSpace(SubSeq(c, 1, Index(c, <<" ", "-", " ">>) - 1))).ok
       /\ Parse(TrimSpace(Drop(c, Index(c, <<" ", "-", " ">>) + 2))).ok
    \/ ValidWildcard(c)
    \/ Parse(c).ok

(* C25.  Satisfies returns an error for every constraint that is not well  *)
(* formed, and never the answer false without an error, also when the      *)
(* malformed text has one of the characters x, X, * or ^ in it.            *)
C25_MalformedConstraintIsAnError ==
    (lib.fn = "Satisfies" /\ lib.done /\ ~WellFormed(lib.arg.constraint)) => lib.out.err

----------------------------------------------------------------------------
(* Properties of the table of package names.                               *)

\* What the first entry of the table with the name decides.
ByFirstEntry(table, pkg, pmType) ==
    LET hits == Matching(table, pkg)
        first == CHOOSE i \in hits : \A j \in hits : i <= j
    IN IF hits = {} THEN [name |-> pkg, err |-> FALSE]
       ELSE IF pmType \in DOMAIN table[first].Packages
       THEN [name |-> table[first].Packages[pmType], err |-> FALSE]
       ELSE [name |-> "", err |-> TRUE]

(* C30.  Lookups resolve to the earliest registration.  After every step   *)
(* the outcome of GetPackageName is the one the first entry with that name *)
(* (but for case) decides; a mapping registered under a name the table has *)
(* already changes the outcome of no lookup; and a registration leaves the *)
(* lookups of every other name as they were.                               *)
C30_EarliestRegistrationWins ==
    [][ \A pkg \in LookupNames, pmType \in ManagerTypes :
          LET Same(before, after) ==
                  /\ after = ByFirstEntry(packageMappings', pkg, pmType)
                  /\ Matching(packageMappings, pkg) # {} => after = before
                  /\ (Registers /\ ~EqualFold(lib'.arg.Name, pkg)) => after = before
          IN Same(GetPackageName(packageMappings, pkg, pmType),
                  GetPackageName(packageMappings', pkg, pmType))
      ]_vars

\* git was registered a second time, for APT under another name, and the
\* lookup still gives the name of the first entry.
C30_Witness ==
    /\ lib.fn = "GetPackageName"
    /\ lib.arg = [pkg |-> "git", pmType |-> TypeApt]
    /\ lib.out = [name |-> "git", err |-> FALSE]
    /\ \E i \in (Len(packageMappingsSeed) + 1)..Len(packageMappings) :
          /\ packageMappings[i].Name = "git"
          /\ packageMappings[i].Packages[TypeApt] = "git-core"
====
